---------------------------- MODULE Spec2Model ----------------------------
(***************************************************************************)
(* A model of the Deribit volatility-surface pipeline: the metrics engine, *)
(* the three surface builders, the Black-Scholes Greeks engine and the     *)
(* build workflow that chains them.                                        *)
(*                                                                         *)
(* Floating-point values are modelled as exact rationals [nan, n, d] in    *)
(* lowest terms (NaN has nan = TRUE), so that structural equality is       *)
(* numeric equality and "undefined" is a value, as in the code.            *)
(***************************************************************************)
EXTENDS Integers, Sequences, FiniteSets, TLC

VARIABLES
    pc,          \* position of the operation being run
    df,          \* the quote table: a sequence of rows (records of columns)
    metrics,     \* the metrics mapping, <<>> until it is computed
    args,        \* the arguments of the operation being run
    surface,     \* <<>>, or <<the three meshes a builder returned>>
    svi_params,  \* <<>>, or <<the SVI parameters per fitted expiration>>
    err,         \* the exceptions raised so far, in order, each with its step
    snapshot,    \* <<>>, or <<the SurfaceSnapshot of the run>>
    disk,        \* the files written to the snapshot directory, in order
    exit_code,   \* the exit status of the process
    history      \* the SurfaceHistory of the analysis session: its snapshot objects

\* SurfaceHistory.__init__: no snapshot loaded
NoHistory == [objects |-> <<>>, snapshots |-> <<>>, returned |-> <<>>]

vars == <<pc, df, metrics, args, surface, svi_params, err, snapshot, disk, exit_code, history>>

---------------------------------------------------------------------------
(* Floats *)

Abs(x) == IF x < 0 THEN -x ELSE x

RECURSIVE Gcd(_, _)
Gcd(a, b) == IF b = 0 THEN a ELSE Gcd(b, a % b)

NaN == [nan |-> TRUE, n |-> 0, d |-> 1]

\* The operators on floats take their arguments through one-element sets, so
\* that an argument given as an expression is evaluated once.

\* the float n/d, in lowest terms with a positive denominator
Rat(n, d) ==
    CHOOSE r \in { LET g == Gcd(Abs(a), Abs(b))
                       s == IF b < 0 THEN -1 ELSE 1
                   IN  [nan |-> FALSE, n |-> s * (a \div g), d |-> s * (b \div g)] :
                   a \in {n}, b \in {d} } : TRUE

Num(n) == [nan |-> FALSE, n |-> n, d |-> 1]

IsNaN(x) == x.nan

Lcm(a, b) == (a \div Gcd(a, b)) * b

FSub(x, y) ==
    CHOOSE r \in { IF a.nan \/ b.nan THEN NaN
                   ELSE Rat(a.n * (Lcm(a.d, b.d) \div a.d)
                              - b.n * (Lcm(a.d, b.d) \div b.d), Lcm(a.d, b.d)) :
                   a \in {x}, b \in {y} } : TRUE

FAdd(x, y) ==
    CHOOSE r \in { IF a.nan \/ b.nan THEN NaN
                   ELSE Rat(a.n * (Lcm(a.d, b.d) \div a.d)
                              + b.n * (Lcm(a.d, b.d) \div b.d), Lcm(a.d, b.d)) :
                   a \in {x}, b \in {y} } : TRUE

FMul(x, y) ==
    CHOOSE r \in { IF a.nan \/ b.nan THEN NaN ELSE Rat(a.n * b.n, a.d * b.d) :
                   a \in {x}, b \in {y} } : TRUE

FDiv(x, y) ==
    CHOOSE r \in { IF a.nan \/ b.nan \/ b.n = 0 THEN NaN ELSE Rat(a.n * b.d, a.d * b.n) :
                   a \in {x}, b \in {y} } : TRUE

\* IEEE comparisons: any comparison with NaN is false
FLe(x, y) ==
    \E a \in {x}, b \in {y} :
        /\ ~a.nan /\ ~b.nan
        /\ a.n * (Lcm(a.d, b.d) \div a.d) <= b.n * (Lcm(a.d, b.d) \div b.d)

FLt(x, y) ==
    \E a \in {x}, b \in {y} :
        /\ ~a.nan /\ ~b.nan
        /\ a.n * (Lcm(a.d, b.d) \div a.d) < b.n * (Lcm(a.d, b.d) \div b.d)

---------------------------------------------------------------------------
(* Sequences *)

RECURSIVE SumSeq(_)
SumSeq(s) == IF s = <<>> THEN 0 ELSE Head(s) + SumSeq(Tail(s))

\* column c of table t, as a sequence
Col(t, c) == [i \in 1..Len(t) |-> t[i][c]]

\* floor of the square root of a natural number
ISqrt(x) == CHOOSE k \in 0..x : k * k <= x /\ (k + 1) * (k + 1) > x

---------------------------------------------------------------------------
(* The quote table (deribit_api.get_option_iv_data builds its rows) *)

\* np.log(n/d), rounded to hundredths: the series 2*(z + z^3/3) with
\* z = (n-d)/(n+d), computed in thousandths
LnMilli(n, d) ==
    LET z == (1000 * (n - d)) \div (n + d)
    IN  2 * z + (2 * z * z * z) \div 3000000

Ln(n, d) == Rat((LnMilli(n, d) + 5) \div 10, 100)

DaysPerYear == Rat(1461, 4)

\* one row of the table for an instrument with the given strike, time to
\* expiry in years, option type and quoted IV, at the underlying price S
QuoteRow(strike, tte, option_type, iv, S) ==
    [ strike        |-> strike,
      tte_days      |-> FMul(tte, DaysPerYear),
      tte_years     |-> tte,
      option_type   |-> option_type,
      mark_iv       |-> iv,
      bid_iv        |-> iv,
      ask_iv        |-> iv,
      moneyness     |-> Rat(strike, S),
      log_moneyness |-> Ln(strike, S) ]

---------------------------------------------------------------------------
(* metrics.py *)

\* pandas Series.mean(): the mean of the non-NaN values, NaN when none
RECURSIVE FSum(_)
FSum(s) == IF s = <<>> THEN Num(0) ELSE FAdd(Head(s), FSum(Tail(s)))

DropNaN(s) == SelectSeq(s, LAMBDA x : ~IsNaN(x))

MeanMutant(s) ==
    LET v == DropNaN(s)
        t == FSum(v)
    IN  IF v = <<>> THEN Num(0) ELSE Rat(t.n, t.d * Len(v))

Mean(s) ==
    LET v == DropNaN(s)
        t == FSum(v)
    IN  IF v = <<>> THEN NaN ELSE Rat(t.n, t.d * Len(v))

Tenors == <<7, 30, 60, 90, 180>>

TenorWindow == 5

\* the moneyness and days-to-expiry limits, as fractions of 100
AtmLo == 98
AtmHi == 102
PutLo == 88
PutHi == 92
CallLo == 108
CallHi == 112
SkewTteLo == 25
SkewTteHi == 35

InTenorMutant(r, tenor) ==
    /\ FLt(Num(tenor - TenorWindow), r.tte_days)
    /\ FLe(r.tte_days, Num(tenor + TenorWindow))

\* metrics.py:15, the row mask of tenor_df
InTenor(r, tenor) ==
    /\ FLe(Num(tenor - TenorWindow), r.tte_days)
    /\ FLe(r.tte_days, Num(tenor + TenorWindow))

\* metrics.py:16, the row mask of atm_df
InAtm(r) ==
    /\ FLe(Rat(AtmLo, 100), r.moneyness)
    /\ FLe(r.moneyness, Rat(AtmHi, 100))

AtmIv(t, tenor) ==
    LET tenor_df == SelectSeq(t, LAMBDA r : InTenor(r, tenor))
        atm_df == SelectSeq(tenor_df, InAtm)
    IN  IF Len(atm_df) > 0 THEN Mean(Col(atm_df, "mark_iv")) ELSE NaN

InSkewTte(r) ==
    FLe(Num(SkewTteLo), r.tte_days) /\ FLe(r.tte_days, Num(SkewTteHi))

Put25dMutant(t) ==
    SelectSeq(t, LAMBDA r :
        /\ FLe(Rat(PutLo, 100), r.moneyness) /\ FLe(r.moneyness, Rat(PutHi, 100))
        /\ InSkewTte(r))

Put25d(t) ==
    SelectSeq(t, LAMBDA r :
        /\ r.option_type = "put"
        /\ FLe(Rat(PutLo, 100), r.moneyness) /\ FLe(r.moneyness, Rat(PutHi, 100))
        /\ InSkewTte(r))

Call25d(t) ==
    SelectSeq(t, LAMBDA r :
        /\ r.option_type = "call"
        /\ FLe(Rat(CallLo, 100), r.moneyness) /\ FLe(r.moneyness, Rat(CallHi, 100))
        /\ InSkewTte(r))

Skew25d(t) ==
    IF Len(Put25d(t)) > 0 /\ Len(Call25d(t)) > 0
    THEN FSub(Mean(Col(Put25d(t), "mark_iv")), Mean(Col(Call25d(t), "mark_iv")))
    ELSE NaN

TermStructureSlopeMutant(atm30, atm90) ==
    IF ~IsNaN(atm30) /\ ~IsNaN(atm90) THEN FSub(atm90, atm30)
    ELSE IF ~IsNaN(atm90) THEN atm90 ELSE NaN

TermStructureSlope(atm30, atm90) ==
    IF ~IsNaN(atm30) /\ ~IsNaN(atm90) THEN FSub(atm90, atm30) ELSE NaN

\* the square root, rounded down to hundredths; NaN for a negative number
FSqrt(x) ==
    CHOOSE r \in { IF a.nan \/ a.n < 0 THEN NaN
                   ELSE Rat(ISqrt((10000 * a.n) \div a.d), 100) : a \in {x} } : TRUE

\* s with x inserted before the first element greater than x (s sorted)
RECURSIVE Insert(_, _)
Insert(s, x) ==
    IF s = <<>> THEN <<x>>
    ELSE IF FLe(x, Head(s)) THEN <<x>> \o s
    ELSE <<Head(s)>> \o Insert(Tail(s), x)

RECURSIVE SortFloats(_)
SortFloats(s) == IF s = <<>> THEN <<>> ELSE Insert(SortFloats(Tail(s)), Head(s))

\* pandas Series.median(), .min(), .max(), .std(): NaN values are skipped
Median(s) ==
    LET v == SortFloats(DropNaN(s))
        k == Len(v)
    IN  IF k = 0 THEN NaN
        ELSE IF k % 2 = 1 THEN v[(k + 1) \div 2]
        ELSE FMul(FAdd(v[k \div 2], v[k \div 2 + 1]), Rat(1, 2))

Min(s) == LET v == SortFloats(DropNaN(s)) IN IF v = <<>> THEN NaN ELSE v[1]

Max(s) == LET v == SortFloats(DropNaN(s)) IN IF v = <<>> THEN NaN ELSE v[Len(v)]

\* the sample standard deviation (ddof = 1): NaN for fewer than two values
Std(s) ==
    LET v == DropNaN(s)
        m == Mean(v)
        sq == [i \in 1..Len(v) |-> FMul(FSub(v[i], m), FSub(v[i], m))]
        t == FSum(sq)
    IN  IF Len(v) < 2 THEN NaN ELSE FSqrt(Rat(t.n, t.d * (Len(v) - 1)))

calculate_surface_metrics(t, underlying_price) ==
    LET atm == [k \in 1..Len(Tenors) |-> AtmIv(t, Tenors[k])]
    IN  [ atm_iv_7d   |-> atm[1],
          atm_iv_30d  |-> atm[2],
          atm_iv_60d  |-> atm[3],
          atm_iv_90d  |-> atm[4],
          atm_iv_180d |-> atm[5],
          skew_25d    |-> Skew25d(t),
          term_structure_slope |-> TermStructureSlope(atm[2], atm[4]),
          iv_mean     |-> Mean(Col(t, "mark_iv")),
          iv_median   |-> Median(Col(t, "mark_iv")),
          iv_std      |-> Std(Col(t, "mark_iv")),
          iv_min      |-> Min(Col(t, "mark_iv")),
          iv_max      |-> Max(Col(t, "mark_iv")) ]

\* the atm_iv_<tenor>d entry of a metrics mapping
AtmOf(m, tenor) ==
    CASE tenor = 7 -> m.atm_iv_7d
      [] tenor = 30 -> m.atm_iv_30d
      [] tenor = 60 -> m.atm_iv_60d
      [] tenor = 90 -> m.atm_iv_90d
      [] tenor = 180 -> m.atm_iv_180d

---------------------------------------------------------------------------
(* The metrics engine run on a cleaned quote table *)

UnderlyingPrice == 100

MaxMetricsRows == 3

\* cleaned quotes around every limit the metrics engine tests:
\* <<strike, days to expiry, option type, mark IV in percent>>
MetricsQuotes ==
    { <<98, 25, "call", 50>>,  <<102, 35, "put", 70>>,  <<100, 24, "call", 60>>,
      <<103, 30, "call", 55>>,
      <<98, 85, "put", 80>>,   <<102, 95, "call", 40>>, <<100, 96, "call", 90>>,
      <<88, 25, "put", 90>>,   <<92, 35, "put", 81>>,   <<108, 25, "call", 45>>,
      <<112, 35, "call", 30>>, <<90, 30, "call", 66>>,  <<110, 30, "put", 77>>,
      <<87, 30, "put", 72>>,   <<90, 36, "put", 68>>,
      <<100, 2, "call", 95>>,  <<100, 13, "put", 75>>,  <<100, 65, "call", 61>>,
      <<100, 185, "put", 51>> }

MetricsRows ==
    { QuoteRow(q[1], FDiv(Num(q[2]), DaysPerYear), q[3], Rat(q[4], 100), UnderlyingPrice) :
        q \in MetricsQuotes }

\* all tables of at most k rows over the row set R
Tables(R, k) == UNION { [1..j -> R] : j \in 0..k }

InitMetrics ==
    /\ pc = "metrics"
    /\ df \in Tables(MetricsRows, MaxMetricsRows)
    /\ metrics = <<>>
    /\ args = [underlying_price |-> UnderlyingPrice]
    /\ surface = <<>>
    /\ svi_params = <<>>
    /\ err = <<>>
    /\ snapshot = <<>>
    /\ disk = <<>>
    /\ exit_code = 0
    /\ history = NoHistory

\* metrics = calculate_surface_metrics(df, underlying_price)
CalculateMetrics ==
    /\ pc = "metrics"
    /\ metrics' = <<calculate_surface_metrics(df, args.underlying_price)>>
    /\ pc' = "metrics_done"
    /\ UNCHANGED <<df, args, surface, svi_params, err, snapshot, disk, exit_code, history>>

NextMetrics == CalculateMetrics

SpecMetrics == InitMetrics /\ [][NextMetrics]_vars

---------------------------------------------------------------------------
(* Claims about the metrics engine *)

\* the sum of column mark_iv over the positions I of table t
RECURSIVE IvSumAt(_, _)
IvSumAt(t, I) ==
    IF I = {} THEN Num(0)
    ELSE LET i == CHOOSE j \in I : TRUE
         IN  FAdd(t[i].mark_iv, IvSumAt(t, I \ {i}))

\* the mean of column mark_iv over the positions I of table t (I not empty)
IvMeanAt(t, I) == LET x == IvSumAt(t, I) IN Rat(x.n, x.d * Cardinality(I))

Between(lo, x, hi) == FLe(lo, x) /\ FLe(x, hi)

\* the rows that count for the ATM IV of a tenor: within 5 days of the tenor
\* and moneyness in [0.98, 1.02], bounds inclusive, calls and puts alike
AtmMatches(t, tenor) ==
    { i \in 1..Len(t) : /\ Between(Num(tenor - 5), t[i].tte_days, Num(tenor + 5))
                        /\ Between(Rat(98, 100), t[i].moneyness, Rat(102, 100)) }

\* C8: for each tenor in {7, 30, 60, 90, 180}, atm_iv_<tenor>d is the mean
\* mark_iv of exactly the rows within 5 days of the tenor with moneyness in
\* [0.98, 1.02], and is NaN if and only if no row matches.
C8_AtmIvIsMeanOfMatches ==
    pc = "metrics_done" =>
        \A tenor \in {7, 30, 60, 90, 180} :
            LET M == AtmMatches(df, tenor)
                v == AtmOf(metrics[1], tenor)
            IN  /\ IsNaN(v) <=> M = {}
                /\ M # {} => v = IvMeanAt(df, M)

\* two rows on the limits of the 30-day bucket are averaged, a row one day
\* outside it is left out, and an empty bucket is NaN
C8_Witness ==
    /\ pc = "metrics_done"
    /\ Cardinality(AtmMatches(df, 30)) = 2
    /\ \E i \in 1..Len(df) : df[i].tte_days = Num(24) /\ df[i].moneyness = Num(1)
    /\ metrics[1].atm_iv_30d = Rat(60, 100)
    /\ IsNaN(metrics[1].atm_iv_90d)

SkewPuts(t) ==
    { i \in 1..Len(t) : /\ t[i].option_type = "put"
                        /\ Between(Rat(88, 100), t[i].moneyness, Rat(92, 100))
                        /\ Between(Num(25), t[i].tte_days, Num(35)) }

SkewCalls(t) ==
    { i \in 1..Len(t) : /\ t[i].option_type = "call"
                        /\ Between(Rat(108, 100), t[i].moneyness, Rat(112, 100))
                        /\ Between(Num(25), t[i].tte_days, Num(35)) }

\* C9: skew_25d is the mean mark_iv of the puts with moneyness in [0.88, 0.92]
\* and 25 to 35 days to expiry minus the mean mark_iv of the calls with
\* moneyness in [1.08, 1.12] and 25 to 35 days; it is NaN if and only if one
\* of the two groups is empty.
C9_SkewIsPutMeanMinusCallMean ==
    pc = "metrics_done" =>
        LET P == SkewPuts(df)
            Q == SkewCalls(df)
            v == metrics[1].skew_25d
        IN  /\ IsNaN(v) <=> (P = {} \/ Q = {})
            /\ (P # {} /\ Q # {}) => v = FSub(IvMeanAt(df, P), IvMeanAt(df, Q))

\* two puts and one call on the limits of their groups give a defined skew
C9_Witness ==
    /\ pc = "metrics_done"
    /\ Cardinality(SkewPuts(df)) = 2
    /\ Cardinality(SkewCalls(df)) = 1
    /\ ~IsNaN(metrics[1].skew_25d)

\* C10: term_structure_slope is atm_iv_90d - atm_iv_30d when both are
\* defined, and NaN whenever either of them is NaN.
C10_SlopeIs90dMinus30d ==
    pc = "metrics_done" =>
        LET m == metrics[1]
        IN  IF IsNaN(m.atm_iv_30d) \/ IsNaN(m.atm_iv_90d)
            THEN IsNaN(m.term_structure_slope)
            ELSE m.term_structure_slope = FSub(m.atm_iv_90d, m.atm_iv_30d)

\* a table with both buckets filled has a defined, non-zero slope
C10_Witness ==
    /\ pc = "metrics_done"
    /\ ~IsNaN(metrics[1].atm_iv_30d)
    /\ ~IsNaN(metrics[1].atm_iv_90d)
    /\ metrics[1].term_structure_slope = Rat(30, 100)

---------------------------------------------------------------------------
(* surface_builder.py: the meshes *)

\* Series.min() and Series.max() of a column, NaN for an empty table
ColMin(t, c) == Min(Col(t, c))

ColMax(t, c) == Max(Col(t, c))

LinspaceMutant(lo, hi, n) ==
    [i \in 1..n |-> FAdd(lo, FMul(Rat(i - 1, n), FSub(hi, lo)))]

\* np.linspace(lo, hi, n): n points from lo to hi, both included
Linspace(lo, hi, n) ==
    [i \in 1..n |->
        IF n = 1 THEN lo ELSE FAdd(lo, FMul(Rat(i - 1, n - 1), FSub(hi, lo)))]

MeshXMutant(x, y) ==
    [ rows |-> Len(y), cols |-> Len(x),
      cell |-> [i \in 1..Len(y) |-> [j \in 1..Len(x) |-> FAdd(x[j], Rat(i, 1000))]] ]

\* np.meshgrid(x, y): two arrays with one row per element of y and one column
\* per element of x.  An array is its shape and its cells, row by row.
MeshX(x, y) ==
    [ rows |-> Len(y), cols |-> Len(x),
      cell |-> [i \in 1..Len(y) |-> [j \in 1..Len(x) |-> x[j]]] ]

MeshY(x, y) ==
    [ rows |-> Len(y), cols |-> Len(x),
      cell |-> [i \in 1..Len(y) |-> [j \in 1..Len(x) |-> y[i]]] ]

\* the (log_moneyness, tte_years) points of a table and their mark_iv
Points(t) ==
    [i \in 1..Len(t) |-> [x |-> t[i].log_moneyness, y |-> t[i].tte_years]]

\* twice the signed area of the triangle a, b, c
Cross(a, b, c) ==
    FSub(FMul(FSub(b.x, a.x), FSub(c.y, a.y)), FMul(FSub(b.y, a.y), FSub(c.x, a.x)))

\* q lies in the closed triangle a, b, c (a, b, c not collinear)
InTriangle(q, a, b, c) ==
    LET u == Cross(a, b, q).n
        v == Cross(b, c, q).n
        w == Cross(c, a, q).n
    IN  /\ Cross(a, b, c).n # 0
        /\ \/ (u >= 0 /\ v >= 0 /\ w >= 0)
           \/ (u <= 0 /\ v <= 0 /\ w <= 0)

\* the triangles (as index triples) of the points ps that contain q
Containing(ps, q) ==
    { tr \in (1..Len(ps)) \X (1..Len(ps)) \X (1..Len(ps)) :
        /\ tr[1] < tr[2] /\ tr[2] < tr[3]
        /\ InTriangle(q, ps[tr[1]], ps[tr[2]], ps[tr[3]]) }

\* q lies in the convex hull of the points ps
InHull(ps, q) == Containing(ps, q) # {}

\* the points ps span the plane: three of them are not collinear
SpansPlane(ps) ==
    \E i, j, k \in 1..Len(ps) : Cross(ps[i], ps[j], ps[k]).n # 0

Dist2(a, b) ==
    FAdd(FMul(FSub(a.x, b.x), FSub(a.x, b.x)), FMul(FSub(a.y, b.y), FSub(a.y, b.y)))

\* the first of the points of ps nearest to q
Nearest(ps, q) ==
    CHOOSE i \in 1..Len(ps) :
        /\ \A j \in 1..Len(ps) : FLe(Dist2(ps[i], q), Dist2(ps[j], q))
        /\ \A j \in 1..(i - 1) : ~FLe(Dist2(ps[j], q), Dist2(ps[i], q))

\* the value at q of the plane through the values at the corners of a
\* triangle containing q (barycentric weights)
Barycentric(ps, vs, q) ==
    LET tr == CHOOSE x \in Containing(ps, q) :
                  \A y \in Containing(ps, q) :
                      \/ x[1] < y[1]
                      \/ (x[1] = y[1] /\ x[2] < y[2])
                      \/ (x[1] = y[1] /\ x[2] = y[2] /\ x[3] <= y[3])
        a == ps[tr[1]]
        b == ps[tr[2]]
        c == ps[tr[3]]
        wa == Cross(q, b, c)
        wb == Cross(a, q, c)
        wc == Cross(a, b, q)
    IN  FDiv(FAdd(FAdd(FMul(wa, vs[tr[1]]), FMul(wb, vs[tr[2]])), FMul(wc, vs[tr[3]])),
             Cross(a, b, c))

\* scipy.interpolate.griddata at the point q: "nearest" takes the value of the
\* nearest input point; "linear" and "cubic" interpolate inside the convex
\* hull of the input points and give NaN (the default fill_value) outside it.
\* Inside the hull both are modelled by the plane over a containing triangle.
GridDataMutant(ps, vs, q, method) ==
    IF InHull(ps, q) THEN Barycentric(ps, vs, q) ELSE vs[Nearest(ps, q)]

GridData(ps, vs, q, method) ==
    IF method = "nearest" THEN vs[Nearest(ps, q)]
    ELSE IF InHull(ps, q) THEN Barycentric(ps, vs, q)
    ELSE NaN

\* griddata raises when there is no input point, and (building the Delaunay
\* triangulation for "linear" and "cubic") when the points do not span the
\* plane, and for an unknown method
GridDataRaises(ps, method) ==
    CASE method = "nearest" -> Len(ps) = 0
      [] method \in {"linear", "cubic"} -> ~SpansPlane(ps)
      [] OTHER -> TRUE

\* the result of a builder: the exception it raised ("" for none) and the
\* meshes it returned
Raised(e) == [raised |-> e, lm |-> <<>>, tte |-> <<>>, iv |-> <<>>, params |-> <<>>]

Returned(lm, tte, iv, params) ==
    [raised |-> "", lm |-> lm, tte |-> tte, iv |-> iv, params |-> params]

create_simple_surface(t, method, grid_size) ==
    LET points == Points(t)
        values == Col(t, "mark_iv")
        log_moneyness_grid ==
            Linspace(ColMin(t, "log_moneyness"), ColMax(t, "log_moneyness"), grid_size)
        tte_grid == Linspace(ColMin(t, "tte_years"), ColMax(t, "tte_years"), grid_size)
        log_moneyness_mesh == MeshX(log_moneyness_grid, tte_grid)
        tte_mesh == MeshY(log_moneyness_grid, tte_grid)
        iv_surface ==
            [ rows |-> grid_size, cols |-> grid_size,
              cell |-> [i \in 1..grid_size |-> [j \in 1..grid_size |->
                  GridData(points, values,
                           [x |-> log_moneyness_grid[j], y |-> tte_grid[i]], method)]] ]
    IN  IF GridDataRaises(points, method) THEN Raised("QhullError")
        ELSE Returned(log_moneyness_mesh, tte_mesh, iv_surface, <<>>)

\* RBFInterpolator(points, values, kernel='thin_plate_spline') at the point q:
\* a global interpolant, defined at every point of the plane.  Its value is
\* modelled by the value of the nearest input point.
RbfMutant(ps, vs, q) == IF InHull(ps, q) THEN vs[Nearest(ps, q)] ELSE NaN

Rbf(ps, vs, q) == vs[Nearest(ps, q)]

\* the thin-plate spline (degree 1) needs three input points, and its linear
\* system is singular when two input points coincide or all are collinear
RbfRaises(ps) ==
    \/ Len(ps) < 3
    \/ \E i, j \in 1..Len(ps) : i < j /\ ps[i] = ps[j]
    \/ ~SpansPlane(ps)

create_rbf_surface(t, grid_size) ==
    LET points == Points(t)
        values == Col(t, "mark_iv")
        log_moneyness_grid ==
            Linspace(ColMin(t, "log_moneyness"), ColMax(t, "log_moneyness"), grid_size)
        tte_grid == Linspace(ColMin(t, "tte_years"), ColMax(t, "tte_years"), grid_size)
        log_moneyness_mesh == MeshX(log_moneyness_grid, tte_grid)
        tte_mesh == MeshY(log_moneyness_grid, tte_grid)
        iv_surface ==
            [ rows |-> grid_size, cols |-> grid_size,
              cell |-> [i \in 1..grid_size |-> [j \in 1..grid_size |->
                  Rbf(points, values,
                      [x |-> log_moneyness_mesh.cell[i][j], y |-> tte_mesh.cell[i][j]])]] ]
    IN  IF RbfRaises(points) THEN Raised("LinAlgError")
        ELSE Returned(log_moneyness_mesh, tte_mesh, iv_surface, <<>>)

---------------------------------------------------------------------------
(* The grid and RBF builders run on the calls of a cleaned quote table *)

GridSize == 3

\* the table of the instruments I of the listing U, in the order of the listing
RECURSIVE SubTable(_, _)
SubTable(U, I) ==
    IF U = <<>> THEN <<>>
    ELSE LET rest == SubTable(Tail(U), {i - 1 : i \in I \ {1}})
         IN  IF 1 \in I THEN <<Head(U)>> \o rest ELSE rest

\* call quotes <<strike, tenths of a year to expiry, mark IV in percent>>: a
\* triangle of expirations and strikes with points inside and on its sides
GridQuotes ==
    << <<90, 1, 50>>, <<110, 1, 60>>, <<100, 3, 70>>, <<100, 1, 55>>,
       <<100, 2, 65>>, <<90, 3, 80>>, <<110, 2, 45>> >>

GridListing ==
    [k \in 1..Len(GridQuotes) |->
        QuoteRow(GridQuotes[k][1], Rat(GridQuotes[k][2], 10), "call",
                 Rat(GridQuotes[k][3], 100), UnderlyingPrice)]

InitGrid ==
    /\ pc = "build"
    /\ \E I \in SUBSET (1..Len(GridListing)) : df = SubTable(GridListing, I)
    /\ \E b \in {"simple", "rbf"}, o \in {"nearest", "linear", "cubic"} :
          /\ b = "rbf" => o = "cubic"
          /\ args = [builder |-> b, method |-> o, grid_size |-> GridSize]
    /\ metrics = <<>>
    /\ surface = <<>>
    /\ svi_params = <<>>
    /\ err = <<>>
    /\ snapshot = <<>>
    /\ disk = <<>>
    /\ exit_code = 0
    /\ history = NoHistory

\* what the caller does with a builder's result
Build(r) ==
    /\ IF r.raised # ""
       THEN /\ err' = Append(err, [step |-> "build", exception |-> r.raised])
            /\ pc' = "build_failed"
            /\ UNCHANGED <<surface, svi_params>>
       ELSE /\ surface' = <<[lm |-> r.lm, tte |-> r.tte, iv |-> r.iv]>>
            /\ svi_params' = r.params
            /\ pc' = "built"
            /\ UNCHANGED err
    /\ UNCHANGED <<df, metrics, args, snapshot, disk, exit_code, history>>

\* log_m_mesh, tte_mesh, iv_surf = create_simple_surface(calls, method=...)
BuildSimple ==
    /\ pc = "build"
    /\ args.builder = "simple"
    /\ Build(create_simple_surface(df, args.method, args.grid_size))

\* log_m_mesh, tte_mesh, iv_surf = create_rbf_surface(calls)
BuildRbf ==
    /\ pc = "build"
    /\ args.builder = "rbf"
    /\ Build(create_rbf_surface(df, args.grid_size))

NextGrid == BuildSimple \/ BuildRbf

SpecGrid == InitGrid /\ [][NextGrid]_vars

---------------------------------------------------------------------------
(* Claims about the grid and RBF builders *)

\* the side of the line through a and b on which q lies: -1, 0 or 1
Side(a, b, q) ==
    LET c == FSub(FMul(FSub(b.x, a.x), FSub(q.y, a.y)),
                  FMul(FSub(b.y, a.y), FSub(q.x, a.x))).n
    IN  IF c > 0 THEN 1 ELSE IF c < 0 THEN -1 ELSE 0

\* q is outside the convex hull of the points of table t (which span the
\* plane): a line through two of the points has every point on one side and
\* q strictly on the other
OutsideHull(t, q) ==
    \E i, j \in 1..Len(t) :
        LET a == [x |-> t[i].log_moneyness, y |-> t[i].tte_years]
            b == [x |-> t[j].log_moneyness, y |-> t[j].tte_years]
        IN  /\ a # b
            /\ Side(a, b, q) # 0
            /\ \A k \in 1..Len(t) :
                  Side(a, b, [x |-> t[k].log_moneyness, y |-> t[k].tte_years])
                      \in {0, -Side(a, b, q)}

\* the mesh cells (i, j) of the built surface outside the hull of the inputs
CellsOutsideHull ==
    LET sf == surface[1]
    IN  { c \in (1..sf.iv.rows) \X (1..sf.iv.cols) :
            OutsideHull(df, [x |-> sf.lm.cell[c[1]][c[2]], y |-> sf.tte.cell[c[1]][c[2]]]) }

\* C3 as stated: whatever the interpolation order (nearest, linear or cubic),
\* every mesh cell of create_simple_surface outside the convex hull of the
\* input points is NaN.
C3_OutsideHullIsNaNForEveryOrder ==
    (pc = "built" /\ args.builder = "simple") =>
        \A c \in CellsOutsideHull : IsNaN(surface[1].iv.cell[c[1]][c[2]])

\* C3 amended: for the interpolation orders linear and cubic, every mesh cell
\* of create_simple_surface outside the convex hull of the input points is
\* NaN (the order nearest fills such cells with the nearest input's IV).
C3_OutsideHullIsNaNForLinearAndCubic ==
    (pc = "built" /\ args.builder = "simple" /\ args.method \in {"linear", "cubic"}) =>
        \A c \in CellsOutsideHull : IsNaN(surface[1].iv.cell[c[1]][c[2]])

\* a cubic surface with a hole outside the hull and a defined cell inside it
C3_Witness ==
    /\ pc = "built" /\ args.builder = "simple" /\ args.method = "cubic"
    /\ CellsOutsideHull # {}
    /\ \E i \in 1..surface[1].iv.rows, j \in 1..surface[1].iv.cols :
          ~IsNaN(surface[1].iv.cell[i][j])

\* C4: every cell of the N x N IV mesh returned by create_rbf_surface is
\* defined (not NaN), the cells outside the convex hull of the inputs included.
C4_RbfMeshHasNoHoles ==
    (pc = "built" /\ args.builder = "rbf") =>
        /\ surface[1].iv.rows = args.grid_size
        /\ surface[1].iv.cols = args.grid_size
        /\ \A i \in 1..args.grid_size, j \in 1..args.grid_size :
              ~IsNaN(surface[1].iv.cell[i][j])

\* an RBF surface whose mesh reaches outside the hull of its inputs
C4_Witness ==
    /\ pc = "built" /\ args.builder = "rbf"
    /\ CellsOutsideHull # {}
    /\ \A c \in CellsOutsideHull : ~IsNaN(surface[1].iv.cell[c[1]][c[2]])

---------------------------------------------------------------------------
(* surface_builder.py: the SVI builder *)

\* a + b * (rho * (k - m) + sqrt((k - m)^2 + sigma^2))
svi_parametrization(k, x) ==
    LET km == FSub(k, x.m)
    IN  FAdd(x.a, FMul(x.b, FAdd(FMul(x.rho, km),
                                 FSqrt(FAdd(FMul(km, km), FMul(x.sigma, x.sigma))))))

\* a float rounded (down) to ten-thousandths: the precision kept in the sum
\* of squares below
FRound(x) ==
    CHOOSE r \in { IF a.nan THEN NaN ELSE Rat((10000 * a.n) \div a.d, 10000) :
                   a \in {x} } : TRUE

\* the sum of squared differences between observed and fitted total variance
Objective(strikes_log, total_var, x) ==
    FSum([i \in 1..Len(strikes_log) |->
            LET e == FRound(FSub(total_var[i], svi_parametrization(strikes_log[i], x)))
            IN  FRound(FMul(e, e))])

\* what scipy.optimize.minimize returns as result.x.  The optimizer starts at
\* x0 and moves inside the bounds; it is modelled by its two ends: "stalled"
\* stops at x0 without converging, "converged" returns the better of x0 and
\* the flat smile through the mean total variance.
FitOutcomes == {"stalled", "converged"}

Minimize(strikes_log, total_var, x0, outcome) ==
    LET flat == [x0 EXCEPT !.b = Num(0)]
    IN  IF outcome = "converged"
           /\ FLt(Objective(strikes_log, total_var, flat),
                  Objective(strikes_log, total_var, x0))
        THEN flat ELSE x0

fit_svi_slice(strikes_log, ivs, tte, outcome) ==
    LET total_var == [i \in 1..Len(ivs) |-> FMul(FMul(ivs[i], ivs[i]), tte)]
        x0 == [ a |-> Mean(total_var), b |-> Rat(1, 10), rho |-> Num(0),
                m |-> Num(0), sigma |-> Rat(1, 10) ]
    IN  Minimize(strikes_log, total_var, x0, outcome)

MinSliceQuotes == 5

SkipSliceMutant(slice_df) == Len(slice_df) <= MinSliceQuotes

\* surface_builder.py:129, the slices left out of the fit
SkipSlice(slice_df) == Len(slice_df) < MinSliceQuotes

\* df['tte_years'].unique(), as a set
Expirations(t) == { t[i].tte_years : i \in 1..Len(t) }

RECURSIVE SortSetMutant(_)
SortSetMutant(S) ==
    IF S = {} THEN <<>>
    ELSE LET hi == CHOOSE x \in S : \A y \in S : FLe(y, x)
         IN  <<hi>> \o SortSetMutant(S \ {hi})

\* sorted(S) for a set of floats
RECURSIVE SortSet(_)
SortSet(S) ==
    IF S = {} THEN <<>>
    ELSE LET lo == CHOOSE x \in S : \A y \in S : FLe(x, y)
         IN  <<lo>> \o SortSet(S \ {lo})

Slice(t, tte) == SelectSeq(t, LAMBDA r : r.tte_years = tte)

CreateSviSurfaceMutant(t, grid_size, outcome) ==
    LET fitted == { tte \in Expirations(t) :
                      ~SkipSlice(Slice(t, tte)) /\ outcome[tte] = "converged" }
        params ==
            [ tte \in fitted |->
                fit_svi_slice(Col(Slice(t, tte), "log_moneyness"),
                              Col(Slice(t, tte), "mark_iv"), tte, outcome[tte]) ]
        log_moneyness_grid ==
            Linspace(ColMin(t, "log_moneyness"), ColMax(t, "log_moneyness"), grid_size)
        tte_grid == SortSet(DOMAIN params)
    IN  Returned(MeshX(log_moneyness_grid, tte_grid), MeshY(log_moneyness_grid, tte_grid),
                 [ rows |-> Len(tte_grid), cols |-> grid_size,
                   cell |-> [i \in 1..Len(tte_grid) |-> [j \in 1..grid_size |->
                       FSqrt(FDiv(svi_parametrization(log_moneyness_grid[j],
                                                      params[tte_grid[i]]),
                                  tte_grid[i]))]] ],
                 <<params>>)

\* outcome gives, for each expiration, how its optimizer run ends
create_svi_surface(t, grid_size, outcome) ==
    LET fitted == { tte \in Expirations(t) : ~SkipSlice(Slice(t, tte)) }
        params ==
            [ tte \in fitted |->
                fit_svi_slice(Col(Slice(t, tte), "log_moneyness"),
                              Col(Slice(t, tte), "mark_iv"), tte, outcome[tte]) ]
        log_moneyness_grid ==
            Linspace(ColMin(t, "log_moneyness"), ColMax(t, "log_moneyness"), grid_size)
        tte_grid == SortSet(DOMAIN params)
        log_moneyness_mesh == MeshX(log_moneyness_grid, tte_grid)
        tte_mesh == MeshY(log_moneyness_grid, tte_grid)
        iv_surface ==
            [ rows |-> Len(tte_grid), cols |-> grid_size,
              cell |-> [i \in 1..Len(tte_grid) |-> [j \in 1..grid_size |->
                  FSqrt(FDiv(svi_parametrization(log_moneyness_grid[j],
                                                 params[tte_grid[i]]),
                             tte_grid[i]))]] ]
    IN  Returned(log_moneyness_mesh, tte_mesh, iv_surface, <<params>>)

---------------------------------------------------------------------------
(* The SVI builder run on the calls of a cleaned quote table *)

\* call quotes <<strike, tenths of a year to expiry, mark IV in percent>>:
\* five strikes of one expiration, six of another and one of a third
SviQuotes ==
    << <<80, 1, 70>>, <<90, 1, 60>>, <<100, 1, 50>>, <<110, 1, 55>>, <<120, 1, 65>>,
       <<90, 2, 62>>, <<95, 2, 58>>, <<100, 2, 54>>, <<105, 2, 56>>, <<110, 2, 60>>,
       <<115, 2, 64>>,
       <<70, 3, 52>> >>

SviListing ==
    [k \in 1..Len(SviQuotes) |->
        QuoteRow(SviQuotes[k][1], Rat(SviQuotes[k][2], 10), "call",
                 Rat(SviQuotes[k][3], 100), UnderlyingPrice)]

InitSvi ==
    /\ pc = "build"
    /\ \E I \in SUBSET (1..Len(SviListing)) : df = SubTable(SviListing, I)
    /\ args = [builder |-> "svi", method |-> "svi", grid_size |-> GridSize]
    /\ metrics = <<>>
    /\ surface = <<>>
    /\ svi_params = <<>>
    /\ err = <<>>
    /\ snapshot = <<>>
    /\ disk = <<>>
    /\ exit_code = 0
    /\ history = NoHistory

\* log_m_mesh, tte_mesh, iv_surf, svi_params = create_svi_surface(calls)
BuildSvi ==
    /\ pc = "build"
    /\ args.builder = "svi"
    /\ \E outcome \in [Expirations(df) -> FitOutcomes] :
          Build(create_svi_surface(df, args.grid_size, outcome))

NextSvi == BuildSvi

SpecSvi == InitSvi /\ [][NextSvi]_vars

---------------------------------------------------------------------------
(* Claims about the SVI builder *)

\* the number of rows of table t with tte_years = tte
QuotesAt(t, tte) == Cardinality({ i \in 1..Len(t) : t[i].tte_years = tte })

\* C2: the keys of svi_params are exactly the distinct tte_years values that
\* occur in at least 5 rows, the mesh has exactly one row per key, and an
\* expiration with fewer than 5 quotes causes no error.
C2_SviKeysAreExpirationsWithFiveQuotes ==
    (pc # "build" /\ args.builder = "svi") =>
        /\ pc = "built"
        /\ err = <<>>
        /\ LET keys == { df[i].tte_years : i \in { j \in 1..Len(df) :
                                                   QuotesAt(df, df[j].tte_years) >= 5 } }
               sf == surface[1]
           IN  /\ DOMAIN svi_params[1] = keys
               /\ sf.lm.rows = Cardinality(keys)
               /\ sf.tte.rows = Cardinality(keys)
               /\ sf.iv.rows = Cardinality(keys)
               /\ \A tte \in keys :
                     Cardinality({ i \in 1..sf.tte.rows :
                                     \A j \in 1..sf.tte.cols : sf.tte.cell[i][j] = tte }) = 1

\* a table with one expiration of 5 quotes, one of 4 and one of 1: one key
C2_Witness ==
    /\ pc = "built" /\ args.builder = "svi"
    /\ \E a, b, c \in Expirations(df) :
          /\ QuotesAt(df, a) = 5 /\ QuotesAt(df, b) = 4 /\ QuotesAt(df, c) = 1
          /\ DOMAIN svi_params[1] = {a}
    /\ surface[1].iv.rows = 1

---------------------------------------------------------------------------
(* greeks.py: the Black-Scholes formulas, in fixed point (thousandths) *)

\* x rounded down to thousandths, one decimal digit at a time
Fx(x) ==
    CHOOSE r \in { IF a.nan THEN NaN
                   ELSE LET r0 == a.n % a.d
                            r1 == (10 * r0) % a.d
                            r2 == (10 * r1) % a.d
                        IN  Rat(1000 * (a.n \div a.d) + 100 * ((10 * r0) \div a.d)
                                  + 10 * ((10 * r1) \div a.d) + (10 * r2) \div a.d,
                                1000) : a \in {x} } : TRUE

FxMul(x, y) == Fx(FMul(x, y))

FxDiv(x, y) == Fx(FDiv(x, y))

\* the two infinities of a float, produced only by a division by zero in d1
PosInf == [nan |-> FALSE, n |-> 1, d |-> 0]

NegInf == [nan |-> FALSE, n |-> -1, d |-> 0]

IsInf(x) == ~x.nan /\ x.d = 0

FNeg(x) == CHOOSE r \in { IF a.nan THEN NaN ELSE [a EXCEPT !.n = -a.n] : a \in {x} } : TRUE

\* 2 * x rounded to the nearest integer, halves away from zero, within -6..6
HalfSteps(x) ==
    LET a == (4 * Abs(x.n) + x.d) \div (2 * x.d)
        h == IF a > 6 THEN 6 ELSE a
    IN  IF x.n < 0 THEN -h ELSE h

\* the entry of a table for x, with the values lo and hi at the infinities
Lookup(table, lo, hi, x) ==
    CHOOSE r \in { IF a.nan THEN NaN
                   ELSE IF IsInf(a) THEN Num(IF a.n > 0 THEN hi ELSE lo)
                   ELSE Rat(table[HalfSteps(a) + 7], 1000) : a \in {x} } : TRUE

\* scipy.stats.norm.cdf and norm.pdf, tabulated in thousandths at every half
\* unit of -3..3; cdf is 0 and 1 and pdf is 0 at the infinities
CdfTable == <<1, 6, 23, 67, 159, 309, 500, 691, 841, 933, 977, 994, 999>>

PdfTable == <<4, 18, 54, 130, 242, 352, 399, 352, 242, 130, 54, 18, 4>>

NormCdf(x) == Lookup(CdfTable, 0, 1, x)

NormPdf(x) == Lookup(PdfTable, 0, 0, x)

\* np.exp(x) for the small exponents -r * T: 1 + x + x^2 / 2
Exp(x) ==
    CHOOSE r \in { Fx(FAdd(FAdd(Num(1), a), FMul(Rat(1, 2), FMul(a, a)))) : a \in {x} } : TRUE

calculate_d1(S, K, T, r, sigma) ==
    CHOOSE d1 \in
        { IF num.nan \/ den.nan THEN NaN
          ELSE IF den.n # 0 THEN FxDiv(num, den)
          ELSE IF num.n > 0 THEN PosInf
          ELSE IF num.n < 0 THEN NegInf
          ELSE NaN :
          num \in {FAdd(Ln(S, K),
                        FxMul(FAdd(r, FxMul(Rat(1, 2), FxMul(sigma, sigma))), T))},
          den \in {FxMul(sigma, FSqrt(T))} } : TRUE

calculate_d2(S, K, T, r, sigma) ==
    LET d1 == calculate_d1(S, K, T, r, sigma)
    IN  IF IsInf(d1) THEN d1 ELSE FSub(d1, FxMul(sigma, FSqrt(T)))

PutDeltaMutant(S, K, T, r, sigma) == FNeg(NormCdf(calculate_d1(S, K, T, r, sigma)))

\* greeks.py:97, delta of a put
PutDelta(S, K, T, r, sigma) == FSub(NormCdf(calculate_d1(S, K, T, r, sigma)), Num(1))

calculate_delta(S, K, T, r, sigma, option_type) ==
    IF option_type = "call" THEN NormCdf(calculate_d1(S, K, T, r, sigma))
    ELSE PutDelta(S, K, T, r, sigma)

calculate_gamma(S, K, T, r, sigma) ==
    FxDiv(NormPdf(calculate_d1(S, K, T, r, sigma)), FxMul(FxMul(Num(S), sigma), FSqrt(T)))

calculate_vega(S, K, T, r, sigma) ==
    FxDiv(FxMul(FxMul(Num(S), NormPdf(calculate_d1(S, K, T, r, sigma))), FSqrt(T)), Num(100))

calculate_theta(S, K, T, r, sigma, option_type) ==
    LET d1 == calculate_d1(S, K, T, r, sigma)
        d2 == calculate_d2(S, K, T, r, sigma)
        term1 == FNeg(FxDiv(FxMul(FxMul(Num(S), NormPdf(d1)), sigma),
                            FxMul(Num(2), FSqrt(T))))
        disc == FxMul(FxMul(r, Num(K)), Exp(FNeg(FxMul(r, T))))
        term2 == IF option_type = "call" THEN FNeg(FxMul(disc, NormCdf(d2)))
                 ELSE FxMul(disc, NormCdf(FNeg(d2)))
    IN  FxDiv(FAdd(term1, term2), Num(365))

calculate_rho(S, K, T, r, sigma, option_type) ==
    LET d2 == calculate_d2(S, K, T, r, sigma)
        kt == FxMul(FxMul(Num(K), T), Exp(FNeg(FxMul(r, T))))
    IN  IF option_type = "call" THEN FxDiv(FxMul(kt, NormCdf(d2)), Num(100))
        ELSE FxDiv(FNeg(FxMul(kt, NormCdf(FNeg(d2)))), Num(100))

---------------------------------------------------------------------------
(* greeks.py: calculate_greeks_from_surface *)

\* np.unique(a.ravel())
Unique(a) == SortSet({ a.cell[c[1]][c[2]] : c \in (1..a.rows) \X (1..a.cols) })

\* greeks.py:266-272, the IV surface resampled on the unique values: each
\* crossing takes the first matching mesh cell, row by row, or stays 0.0
IvGrid(s, log_m_unique, tte_unique) ==
    [i \in 1..Len(log_m_unique) |-> [j \in 1..Len(tte_unique) |->
        LET mask == { c \in (1..s.lm.rows) \X (1..s.lm.cols) :
                        /\ s.lm.cell[c[1]][c[2]] = log_m_unique[i]
                        /\ s.tte.cell[c[1]][c[2]] = tte_unique[j] }
            first == CHOOSE c \in mask : \A e \in mask :
                        c[1] < e[1] \/ (c[1] = e[1] /\ c[2] <= e[2])
        IN  IF mask = {} THEN Num(0) ELSE s.iv.cell[first[1]][first[2]]]]

ClipMutant(x, lo, hi) == x

\* np.clip(x, lo, hi)
Clip(x, lo, hi) ==
    CHOOSE r \in { IF FLt(a, lo) THEN lo ELSE IF FLt(hi, a) THEN hi ELSE a : a \in {x} } : TRUE

\* The grid interval RegularGridInterpolator uses for x, as the index of its
\* lower end.  A point that lies on a grid line belongs to the interval on its
\* left or on its right, depending on the search the installed scipy uses.
GridSides == {"left", "right"}

Interval(g, x, side) ==
    LET n == Len(g)
        below == Cardinality({ k \in 1..n :
                     IF side = "left" THEN FLt(g[k], x) ELSE FLe(g[k], x) })
    IN  IF n = 1 \/ below < 1 THEN 1 ELSE IF below > n - 1 THEN n - 1 ELSE below

\* the upper end of the interval; a grid of one point is its own interval
Upper(g, i) == IF Len(g) = 1 THEN 1 ELSE i + 1

\* the normalised distance of x from the lower end of its interval
NormDistance(g, i, x) ==
    IF g[Upper(g, i)] = g[i] THEN Num(0)
    ELSE FDiv(FSub(x, g[i]), FSub(g[Upper(g, i)], g[i]))

\* interpolator(point): the four corners weighted; a NaN corner makes the
\* result NaN whatever its weight
Interpolate(log_m_unique, tte_unique, iv_grid, q, side) ==
    LET i == Interval(log_m_unique, q.x, side)
        j == Interval(tte_unique, q.y, side)
        i2 == Upper(log_m_unique, i)
        j2 == Upper(tte_unique, j)
        u == NormDistance(log_m_unique, i, q.x)
        v == NormDistance(tte_unique, j, q.y)
        u1 == FSub(Num(1), u)
        v1 == FSub(Num(1), v)
    IN  FRound(FAdd(FAdd(FMul(iv_grid[i][j], FMul(u1, v1)),
                         FMul(iv_grid[i][j2], FMul(u1, v))),
                    FAdd(FMul(iv_grid[i2][j], FMul(u, v1)),
                         FMul(iv_grid[i2][j2], FMul(u, v)))))

\* 1/24/365, one hour as a fraction of a 365-day year
HoursPerYear == 8760

\* greeks.py:309
ValidMask(T) == FLt(Rat(1, HoursPerYear), T)

Undefined ==
    [bs_delta |-> NaN, bs_gamma |-> NaN, bs_vega |-> NaN, bs_theta |-> NaN, bs_rho |-> NaN]

\* greeks.py:319-330, the Greeks written to the rows of call_mask
CallGreeks(S, K, T, rate, sigma) ==
    [ bs_delta |-> calculate_delta(S, K, T, rate, sigma, "call"),
      bs_gamma |-> calculate_gamma(S, K, T, rate, sigma),
      bs_vega  |-> calculate_vega(S, K, T, rate, sigma),
      bs_theta |-> calculate_theta(S, K, T, rate, sigma, "call"),
      bs_rho   |-> calculate_rho(S, K, T, rate, sigma, "call") ]

PutGreeksMutant(S, K, T, rate, sigma) ==
    [ bs_delta |-> calculate_delta(S, K, T, rate, sigma, "put"),
      bs_gamma |-> FNeg(calculate_gamma(S, K, T, rate, sigma)),
      bs_vega  |-> FNeg(calculate_vega(S, K, T, rate, sigma)),
      bs_theta |-> calculate_theta(S, K, T, rate, sigma, "put"),
      bs_rho   |-> calculate_rho(S, K, T, rate, sigma, "put") ]

\* greeks.py:333-344, the Greeks written to the rows of put_mask
PutGreeks(S, K, T, rate, sigma) ==
    [ bs_delta |-> calculate_delta(S, K, T, rate, sigma, "put"),
      bs_gamma |-> calculate_gamma(S, K, T, rate, sigma),
      bs_vega  |-> calculate_vega(S, K, T, rate, sigma),
      bs_theta |-> calculate_theta(S, K, T, rate, sigma, "put"),
      bs_rho   |-> calculate_rho(S, K, T, rate, sigma, "put") ]

\* greeks.py:312-344, the five Greeks of one row
RowGreeks(r, S, rate, sigma) ==
    IF ValidMask(r.tte_years) /\ r.option_type = "call"
    THEN CallGreeks(S, r.strike, r.tte_years, rate, sigma)
    ELSE IF ValidMask(r.tte_years) /\ r.option_type = "put"
    THEN PutGreeks(S, r.strike, r.tte_years, rate, sigma)
    ELSE Undefined

\* greeks.py:284
WithLogMoneyness(r, underlying_price) ==
    r @@ [log_moneyness_calc |-> Ln(r.strike, underlying_price)]

SmoothedIvMutant(r, log_m_unique, tte_unique, iv_grid, underlying_price, side) ==
    Interpolate(log_m_unique, tte_unique, iv_grid,
                [ x |-> Clip(WithLogMoneyness(r, underlying_price).log_moneyness_calc,
                             log_m_unique[1], log_m_unique[Len(log_m_unique)]),
                  y |-> Clip(r.tte_years, tte_unique[1], tte_unique[Len(tte_unique)]) ],
                side)

\* greeks.py:287-298, the smoothed IV of one row: its point clipped to the
\* grid and interpolated, or its mark_iv where the interpolation gives NaN
SmoothedIv(r, log_m_unique, tte_unique, iv_grid, underlying_price, side) ==
    LET point ==
            [ x |-> Clip(WithLogMoneyness(r, underlying_price).log_moneyness_calc,
                         log_m_unique[1], log_m_unique[Len(log_m_unique)]),
              y |-> Clip(r.tte_years, tte_unique[1], tte_unique[Len(tte_unique)]) ]
        interpolated == Interpolate(log_m_unique, tte_unique, iv_grid, point, side)
    IN  IF IsNaN(interpolated) THEN r.mark_iv ELSE interpolated

AnnotateRowMutant(r, log_m_unique, tte_unique, iv_grid, underlying_price, risk_free_rate, side) ==
    CHOOSE row \in
        { [mark_iv |-> sigma] @@ WithLogMoneyness(r, underlying_price)
            @@ [smoothed_iv |-> sigma]
            @@ RowGreeks(r, underlying_price, risk_free_rate, sigma) :
          sigma \in {SmoothedIv(r, log_m_unique, tte_unique, iv_grid,
                                underlying_price, side)} } : TRUE

\* greeks.py:284-344 for one row
AnnotateRow(r, log_m_unique, tte_unique, iv_grid, underlying_price, risk_free_rate, side) ==
    CHOOSE row \in
        { WithLogMoneyness(r, underlying_price) @@ [smoothed_iv |-> sigma]
            @@ RowGreeks(r, underlying_price, risk_free_rate, sigma) :
          sigma \in {SmoothedIv(r, log_m_unique, tte_unique, iv_grid,
                                underlying_price, side)} } : TRUE

\* The table is annotated in place, so the result carries the exception raised
\* ("" for none) and the table as the call left it.  Taking the minimum of an
\* empty array of unique values raises, after log_moneyness_calc was added.
calculate_greeks_from_surface(t, s, underlying_price, risk_free_rate, side) ==
    CHOOSE result \in
        { IF log_m_unique = <<>> \/ tte_unique = <<>>
          THEN [raised |-> "ValueError",
                df |-> [k \in 1..Len(t) |-> WithLogMoneyness(t[k], underlying_price)]]
          ELSE [raised |-> "",
                df |-> [k \in 1..Len(t) |->
                          AnnotateRow(t[k], log_m_unique, tte_unique, iv_grid,
                                      underlying_price, risk_free_rate, side)]] :
          log_m_unique \in {Unique(s.lm)}, tte_unique \in {Unique(s.tte)},
          iv_grid \in {IvGrid(s, Unique(s.lm), Unique(s.tte))} } : TRUE

---------------------------------------------------------------------------
(* calculate_greeks_from_surface run on a quote table and a built surface *)

\* the surfaces handed to the Greeks engine: a cubic mesh with NaN cells
\* outside a triangle of quotes, a linear mesh, an RBF mesh, and SVI meshes
\* of two rows, one row and no row
GreeksSurfaces ==
    { create_simple_surface(t, "cubic", GridSize) : t \in {SubTable(GridListing, {1, 2, 3})} }
    \cup { create_simple_surface(t, "linear", GridSize) : t \in {GridListing} }
    \cup { create_rbf_surface(t, GridSize) : t \in {GridListing} }
    \cup { create_svi_surface(t, GridSize, [tte \in Expirations(t) |-> "stalled"]) :
             t \in { SubTable(SviListing, I) : I \in {1..Len(SviListing), 1..5, 1..4} } }

\* quotes <<strike, time to expiry in years, option type, mark IV in percent>>:
\* a call and a put of the same strike and expiration, and expirations below,
\* at and above one hour
GreeksQuotes ==
    << <<100, Rat(1, 10), "call", 50>>, <<100, Rat(1, 10), "put", 52>>,
       <<90, Rat(2, 10), "put", 61>>,
       <<110, Rat(1, HoursPerYear), "call", 55>>,
       <<100, Rat(1, 10000), "put", 70>>,
       <<120, Rat(1, 8000), "call", 65>> >>

GreeksListing ==
    [k \in 1..Len(GreeksQuotes) |->
        QuoteRow(GreeksQuotes[k][1], GreeksQuotes[k][2], GreeksQuotes[k][3],
                 Rat(GreeksQuotes[k][4], 100), UnderlyingPrice)]

RiskFreeRates == {Num(0), Rat(5, 100)}

InitGreeks ==
    /\ pc = "greeks"
    /\ \E I \in SUBSET (1..Len(GreeksListing)) : df = SubTable(GreeksListing, I)
    /\ \E s \in GreeksSurfaces : surface = <<[lm |-> s.lm, tte |-> s.tte, iv |-> s.iv]>>
    /\ \E rate \in RiskFreeRates, side \in GridSides :
          args = [underlying_price |-> UnderlyingPrice, risk_free_rate |-> rate,
                  side |-> side]
    /\ metrics = <<>>
    /\ svi_params = <<>>
    /\ err = <<>>
    /\ snapshot = <<>>
    /\ disk = <<>>
    /\ exit_code = 0
    /\ history = NoHistory

\* df = calculate_greeks_from_surface(df, log_m_mesh, tte_mesh, iv_surf,
\*                                    underlying_price, risk_free_rate)
CalculateGreeks ==
    /\ pc = "greeks"
    /\ LET r == calculate_greeks_from_surface(df, surface[1], args.underlying_price,
                                              args.risk_free_rate, args.side)
       IN  /\ df' = r.df
           /\ IF r.raised # ""
              THEN /\ err' = Append(err, [step |-> "greeks", exception |-> r.raised])
                   /\ pc' = "greeks_failed"
              ELSE /\ err' = err
                   /\ pc' = "greeks_done"
    /\ UNCHANGED <<metrics, args, surface, svi_params, snapshot, disk, exit_code, history>>

NextGreeks == CalculateGreeks

SpecGreeks == InitGreeks /\ [][NextGreeks]_vars

---------------------------------------------------------------------------
(* Claims about the Greeks *)

AllUndefined(r) ==
    /\ IsNaN(r.bs_delta) /\ IsNaN(r.bs_gamma) /\ IsNaN(r.bs_vega)
    /\ IsNaN(r.bs_theta) /\ IsNaN(r.bs_rho)

\* the five Black-Scholes values of the row r at its smoothed IV
Formulas(r) ==
    LET S == args.underlying_price
        rate == args.risk_free_rate
    IN  [ bs_delta |-> calculate_delta(S, r.strike, r.tte_years, rate, r.smoothed_iv,
                                       r.option_type),
          bs_gamma |-> calculate_gamma(S, r.strike, r.tte_years, rate, r.smoothed_iv),
          bs_vega  |-> calculate_vega(S, r.strike, r.tte_years, rate, r.smoothed_iv),
          bs_theta |-> calculate_theta(S, r.strike, r.tte_years, rate, r.smoothed_iv,
                                       r.option_type),
          bs_rho   |-> calculate_rho(S, r.strike, r.tte_years, rate, r.smoothed_iv,
                                     r.option_type) ]

AllComputed(r) ==
    /\ r.bs_delta = Formulas(r).bs_delta /\ ~IsNaN(r.bs_delta)
    /\ r.bs_gamma = Formulas(r).bs_gamma /\ ~IsNaN(r.bs_gamma)
    /\ r.bs_vega = Formulas(r).bs_vega /\ ~IsNaN(r.bs_vega)
    /\ r.bs_theta = Formulas(r).bs_theta /\ ~IsNaN(r.bs_theta)
    /\ r.bs_rho = Formulas(r).bs_rho /\ ~IsNaN(r.bs_rho)

OneHour == Rat(1, 24 * 365)

\* C5: after calculate_greeks_from_surface every row with tte_years below
\* 1/(24*365) has its five Greeks undefined, and every call or put row with
\* tte_years of 1/(24*365) or more has its five Greeks computed.
C5_SkippedExactlyBelowOneHour ==
    pc = "greeks_done" =>
        \A k \in 1..Len(df) :
            /\ FLt(df[k].tte_years, OneHour) => AllUndefined(df[k])
            /\ FLe(OneHour, df[k].tte_years) /\ df[k].option_type \in {"call", "put"}
                  => AllComputed(df[k])

\* the rows of the result with a defined delta
Computed == { k \in 1..Len(df) : ~IsNaN(df[k].bs_delta) }

\* C6: for every row whose Greeks are computed, the delta of a call minus the
\* delta of a put at the row's S, K, T, r and smoothed IV equals 1, and the
\* row's bs_delta is the one of its option type.
C6_DeltaParity ==
    pc = "greeks_done" =>
        \A k \in Computed :
            LET r == df[k]
                S == args.underlying_price
                rate == args.risk_free_rate
                call == calculate_delta(S, r.strike, r.tte_years, rate, r.smoothed_iv, "call")
                put == calculate_delta(S, r.strike, r.tte_years, rate, r.smoothed_iv, "put")
            IN  /\ FSub(call, put) = Num(1)
                /\ r.bs_delta = IF r.option_type = "call" THEN call ELSE put

\* a call and a put of the result with the same strike, expiration and
\* smoothed IV
SamePairs ==
    { p \in (1..Len(df)) \X (1..Len(df)) :
        /\ df[p[1]].option_type = "call" /\ df[p[2]].option_type = "put"
        /\ df[p[1]].strike = df[p[2]].strike
        /\ df[p[1]].tte_years = df[p[2]].tte_years
        /\ df[p[1]].smoothed_iv = df[p[2]].smoothed_iv }

\* a call and a put with computed Greeks, at the same S, K, T, r and sigma,
\* whose deltas differ by 1
C6_Witness ==
    /\ pc = "greeks_done"
    /\ \E p \in SamePairs :
          /\ p[1] \in Computed /\ p[2] \in Computed
          /\ FSub(df[p[1]].bs_delta, df[p[2]].bs_delta) = Num(1)

\* C7: a call row and a put row with the same strike, tte_years and smoothed
\* IV receive the same bs_gamma and the same bs_vega (both undefined counts as
\* the same).
C7_GammaVegaIgnoreOptionType ==
    pc = "greeks_done" =>
        \A p \in SamePairs :
            /\ df[p[1]].bs_gamma = df[p[2]].bs_gamma
            /\ df[p[1]].bs_vega = df[p[2]].bs_vega

\* such a pair with a defined, non-zero gamma and vega
C7_Witness ==
    /\ pc = "greeks_done"
    /\ \E p \in SamePairs :
          /\ ~IsNaN(df[p[1]].bs_gamma) /\ df[p[1]].bs_gamma # Num(0)
          /\ ~IsNaN(df[p[1]].bs_vega) /\ df[p[1]].bs_vega # Num(0)
          /\ df[p[1]].bs_gamma = df[p[2]].bs_gamma
          /\ df[p[1]].bs_vega = df[p[2]].bs_vega

---------------------------------------------------------------------------
(* data_processing.py, snapshot.py and visualizations.py, as the workflow
   uses them *)

MinTteDays == 1

MoneynessLo == Rat(7, 10)

MoneynessHi == Rat(13, 10)

PercentThreshold == 10

PercentMutant(r) == [r EXCEPT !.mark_iv = FDiv(@, Num(100))]

Percent(r) ==
    [r EXCEPT !.mark_iv = FDiv(@, Num(100)), !.bid_iv = FDiv(@, Num(100)),
              !.ask_iv = FDiv(@, Num(100))]

CleanIvDataMutant(t) ==
    CHOOSE cleaned \in
        { IF FLt(Num(PercentThreshold), Max(Col(kept, "mark_iv")))
          THEN [k \in 1..Len(kept) |-> Percent(kept[k])] ELSE kept :
          kept \in { SelectSeq(t, LAMBDA r :
                        /\ ~IsNaN(r.mark_iv)
                        /\ FLt(Num(0), r.mark_iv)
                        /\ FLt(Num(MinTteDays), r.tte_days)
                        /\ FLt(MoneynessLo, r.moneyness)
                        /\ FLt(r.moneyness, MoneynessHi)) } } : TRUE

\* clean_iv_data(df): the rows with a positive mark_iv, at least min_tte_days
\* to expiry and a moneyness inside the range; IVs quoted in percent are
\* converted to decimals
clean_iv_data(t) ==
    CHOOSE cleaned \in
        { IF FLt(Num(PercentThreshold), Max(Col(kept, "mark_iv")))
          THEN [k \in 1..Len(kept) |-> Percent(kept[k])] ELSE kept :
          kept \in { SelectSeq(t, LAMBDA r :
                        /\ ~IsNaN(r.mark_iv)
                        /\ FLt(Num(0), r.mark_iv)
                        /\ FLe(Num(MinTteDays), r.tte_days)
                        /\ FLe(MoneynessLo, r.moneyness)
                        /\ FLe(r.moneyness, MoneynessHi)) } } : TRUE

CallsMutant(t) == t

\* separate_by_type(df)[0]
Calls(t) == SelectSeq(t, LAMBDA r : r.option_type = "call")

\* ndarray.tolist(): the rows of the array as nested lists
ToList(a) == a.cell

\* np.array(list): the array of a nested list, its shape taken from the
\* nesting; a list without rows gives an array of one axis of length 0
NpArray(list) ==
    IF list = <<>> THEN [size |-> 0, cell |-> <<>>]
    ELSE [rows |-> Len(list), cols |-> Len(list[1]), cell |-> list]

\* ndarray.shape
Shape(a) == IF "size" \in DOMAIN a THEN <<a.size>> ELSE <<a.rows, a.cols>>

\* A datetime is [sec, usec].  datetime.isoformat() writes both,
\* datetime.fromisoformat() reads both, strftime('%Y%m%d_%H%M%S') writes the
\* seconds only.
IsoFormat(timestamp) == <<timestamp.sec, timestamp.usec>>

FromIsoFormat(text) == [sec |-> text[1], usec |-> text[2]]

StrfTime(timestamp) == timestamp.sec

\* total_seconds() of the difference of two datetimes, in microseconds
Microseconds(timestamp) == timestamp.sec * 1000000 + timestamp.usec

\* an optional value (dvol, raw_options) is None or <<the value>>
None == <<>>

\* SurfaceSnapshot.to_dict()
to_dict(snap) ==
    [ timestamp |-> IsoFormat(snap.timestamp),
      currency |-> snap.currency,
      underlying_price |-> snap.underlying_price,
      dvol |-> snap.dvol,
      surface_data |-> [ log_moneyness_mesh |-> ToList(snap.surface_data.lm),
                         tte_mesh |-> ToList(snap.surface_data.tte),
                         iv_surface |-> ToList(snap.surface_data.iv) ],
      metrics |-> snap.metrics ]

\* SurfaceSnapshot.from_dict(data)
from_dict(data) ==
    [ timestamp |-> FromIsoFormat(data.timestamp),
      currency |-> data.currency,
      underlying_price |-> data.underlying_price,
      dvol |-> data.dvol,
      surface_data |-> [ lm |-> NpArray(data.surface_data.log_moneyness_mesh),
                         tte |-> NpArray(data.surface_data.tte_mesh),
                         iv |-> NpArray(data.surface_data.iv_surface) ],
      raw_options |-> None,
      metrics |-> data.metrics ]

\* the stem of the files of a snapshot: currency and time to the second
Stem(snap) == <<snap.currency, StrfTime(snap.timestamp)>>

\* SurfaceHistory.save_snapshot: the files it writes
SavedFiles(snap, save_raw) ==
    <<[name |-> Stem(snap), kind |-> "json", content |-> to_dict(snap)]>>
    \o (IF save_raw /\ snap.raw_options # None
        THEN <<[name |-> Stem(snap), kind |-> "pkl", content |-> snap.raw_options[1]]>>
        ELSE <<>>)

\* The exception the plots of main.py:162-191 raise, "" for none.  plot_surface
\* and contourf need a mesh of at least 2 x 2 cells; the Greek surfaces are
\* drawn from the bs_* columns when one holds a value, with a cubic griddata
\* over the points of the table.  (The Deribit columns they fall back on when
\* the bs_* columns are missing are not part of the rows here.)
VizRaises(s, t) ==
    IF s.iv.rows < 2 \/ s.iv.cols < 2 THEN "TypeError"
    ELSE IF /\ \E k \in 1..Len(t) :
                 /\ "bs_delta" \in DOMAIN t[k]
                 /\ ~IsNaN(t[k].bs_delta) \/ ~IsNaN(t[k].bs_gamma) \/ ~IsNaN(t[k].bs_vega)
            /\ GridDataRaises(Points(t), "cubic")
    THEN "QhullError"
    ELSE ""

---------------------------------------------------------------------------
(* The build workflow: build_volatility_surface under main() in main.py and
   the "Build Surface" handler of app.py *)

\* raw quotes <<strike, time to expiry in years, option type, mark IV in
\* percent>>: five calls on each of two expirations, a put on each, a call
\* expiring in half a day and a call quoted without IV
WorkflowQuotes ==
    << <<80, Rat(1, 10), "call", 70>>, <<90, Rat(1, 10), "call", 60>>,
       <<100, Rat(1, 10), "call", 50>>, <<110, Rat(1, 10), "call", 55>>,
       <<120, Rat(1, 10), "call", 65>>,
       <<90, Rat(2, 10), "call", 62>>, <<95, Rat(2, 10), "call", 58>>,
       <<100, Rat(2, 10), "call", 54>>, <<105, Rat(2, 10), "call", 56>>,
       <<110, Rat(2, 10), "call", 60>>,
       <<100, Rat(1, 10), "put", 52>>, <<90, Rat(2, 10), "put", 61>>,
       <<100, Rat(1, 730), "call", 90>>, <<105, Rat(1, 10), "call", 0>> >>

WorkflowListing ==
    [k \in 1..Len(WorkflowQuotes) |->
        QuoteRow(WorkflowQuotes[k][1], WorkflowQuotes[k][2], WorkflowQuotes[k][3],
                 Num(WorkflowQuotes[k][4]), UnderlyingPrice)]

\* the tables a fetch can return: the first or the last instruments of the
\* listing, or none
FetchedTables ==
    { SubTable(WorkflowListing, 1..b) : b \in 0..Len(WorkflowListing) }
    \cup { SubTable(WorkflowListing, a..Len(WorkflowListing)) : a \in 1..Len(WorkflowListing) }

\* the method names build_volatility_surface dispatches on
Methods == {"simple", "rbf", "svi"}

\* the calls of build_volatility_surface in main.py (--save-raw turns --save
\* on; "linear" stands for a method name that is none of the three) and the
\* sidebar of app.py (no plots in the build handler, Save Raw Data needs Save
\* Snapshot, the method picked from the three)
Invocations ==
    { a \in [ frontend : {"cli", "app"}, method : Methods \cup {"linear"},
              save_snapshot : BOOLEAN, save_raw : BOOLEAN,
              show_viz : BOOLEAN, save_plots : BOOLEAN,
              underlying_price : {UnderlyingPrice}, grid_size : {GridSize} ] :
        /\ a.save_raw => a.save_snapshot
        /\ a.frontend = "app" => ~a.show_viz /\ ~a.save_plots /\ a.method \in Methods }

InitWorkflow ==
    /\ pc = "fetch"
    /\ args \in Invocations
    /\ df = <<>>
    /\ metrics = <<>>
    /\ surface = <<>>
    /\ svi_params = <<>>
    /\ err = <<>>
    /\ snapshot = <<>>
    /\ disk = <<>>
    /\ exit_code = 0
    /\ history = NoHistory

AbortMutant(step, exception) ==
    /\ err' = Append(err, [step |-> step, exception |-> exception])
    /\ pc' = IF args.frontend = "cli" THEN "exited" ELSE "stopped"
    /\ exit_code' = exit_code

\* An exception that ends the run: main.py exits with status 1 (sys.exit(1)
\* in the handler, or main() returning 1); app.py shows it and stops the script
Abort(step, exception) ==
    /\ err' = Append(err, [step |-> step, exception |-> exception])
    /\ IF args.frontend = "cli"
       THEN pc' = "exited" /\ exit_code' = 1
       ELSE pc' = "stopped" /\ exit_code' = exit_code

\* main.py:55-79, app.py:109-118: the market data and the quote table
FetchData ==
    /\ pc = "fetch"
    /\ \/ /\ Abort("fetch", "RequestException")
          /\ UNCHANGED df
       \/ /\ df' \in FetchedTables
          /\ pc' = "clean"
          /\ UNCHANGED <<err, exit_code>>
    /\ UNCHANGED <<metrics, args, surface, svi_params, snapshot, disk, history>>

\* main.py:82, app.py:121.  A fetch that returned no instrument gives a
\* DataFrame without columns, on which dropna(subset=['mark_iv']) raises.
CleanData ==
    /\ pc = "clean"
    /\ IF df = <<>>
       THEN /\ Abort("clean", "KeyError")
            /\ UNCHANGED df
       ELSE /\ df' = clean_iv_data(df)
            /\ pc' = "metrics"
            /\ UNCHANGED <<err, exit_code>>
    /\ UNCHANGED <<metrics, args, surface, svi_params, snapshot, disk, history>>

MetricsMutant ==
    /\ pc = "metrics"
    /\ metrics' = <<calculate_surface_metrics(df, args.underlying_price)>>
    /\ df' = Calls(df)
    /\ pc' = "build"
    /\ UNCHANGED <<args, surface, svi_params, err, snapshot, disk, exit_code, history>>

\* main.py:94, app.py:125
Metrics ==
    /\ pc = "metrics"
    /\ metrics' = <<calculate_surface_metrics(df, args.underlying_price)>>
    /\ pc' = "build"
    /\ UNCHANGED <<df, args, surface, svi_params, err, snapshot, disk, exit_code, history>>

\* main.py:99-112, app.py:130-137: what the workflow does with the result
\* of the builder
Built(r) ==
    IF r.raised # ""
    THEN /\ Abort("build", r.raised)
         /\ UNCHANGED <<surface, svi_params>>
    ELSE /\ surface' = <<[lm |-> r.lm, tte |-> r.tte, iv |-> r.iv]>>
         /\ svi_params' = r.params
         /\ pc' = "greeks"
         /\ UNCHANGED <<err, exit_code>>

\* the surface of the calls, by the chosen method
BuildSurface ==
    /\ pc = "build"
    /\ \E calls \in {Calls(df)} :
          \/ /\ args.method = "simple"
             /\ \E r \in {create_simple_surface(calls, "cubic", args.grid_size)} : Built(r)
          \/ /\ args.method = "rbf"
             /\ \E r \in {create_rbf_surface(calls, args.grid_size)} : Built(r)
          \/ /\ args.method = "svi"
             /\ \E outcome \in [Expirations(calls) -> FitOutcomes] :
                   \E r \in {create_svi_surface(calls, args.grid_size, outcome)} : Built(r)
          \/ /\ args.method \notin Methods
             /\ Abort("build", "ValueError")
             /\ UNCHANGED <<surface, svi_params>>
    /\ UNCHANGED <<df, metrics, args, snapshot, disk, history>>

\* main.py:114-124, app.py:139-148: the Greeks, inside try/except.  The table
\* is annotated in place, so it keeps what the call wrote before it raised.
Greeks ==
    /\ pc = "greeks"
    /\ \E side \in GridSides :
          \E r \in {calculate_greeks_from_surface(df, surface[1], args.underlying_price,
                                                  Num(0), side)} :
              /\ df' = r.df
              /\ err' = IF r.raised # ""
                        THEN Append(err, [step |-> "greeks", exception |-> r.raised])
                        ELSE err
    /\ pc' = "snapshot"
    /\ UNCHANGED <<metrics, args, surface, svi_params, snapshot, disk, exit_code, history>>

\* datetime.now() and the currency of the run
Now == [sec |-> 1, usec |-> 0]

Currency == "BTC"

\* main.py:127-135, app.py:151-159
CreateSnapshot ==
    /\ pc = "snapshot"
    /\ snapshot' = << [ timestamp |-> Now,
                        currency |-> Currency,
                        underlying_price |-> args.underlying_price,
                        dvol |-> None,
                        surface_data |-> surface[1],
                        raw_options |-> <<df>>,
                        metrics |-> metrics[1] ] >>
    /\ pc' = "save"
    /\ UNCHANGED <<df, metrics, args, surface, svi_params, err, disk, exit_code, history>>

\* main.py:138-140, app.py:162-172; the dashboard then keeps the results in
\* its session state and the handler is over
SaveSnapshot ==
    /\ pc = "save"
    /\ disk' = IF args.save_snapshot
               THEN disk \o SavedFiles(snapshot[1], args.save_raw) ELSE disk
    /\ pc' = IF args.frontend = "cli" THEN "viz" ELSE "done"
    /\ UNCHANGED <<df, metrics, args, surface, svi_params, err, snapshot, exit_code, history>>

\* main.py:143-211: the plots, outside any handler: an exception reaches
\* main(), which returns 1
Visualize ==
    /\ pc = "viz"
    /\ IF (args.show_viz \/ args.save_plots) /\ VizRaises(surface[1], df) # ""
       THEN Abort("viz", VizRaises(surface[1], df))
       ELSE /\ pc' = "done"
            /\ UNCHANGED <<err, exit_code>>
    /\ UNCHANGED <<df, metrics, args, surface, svi_params, snapshot, disk, history>>

NextWorkflow ==
    \/ FetchData \/ CleanData \/ Metrics \/ BuildSurface
    \/ Greeks \/ CreateSnapshot \/ SaveSnapshot \/ Visualize

SpecWorkflow == InitWorkflow /\ [][NextWorkflow]_vars

---------------------------------------------------------------------------
(* Claims about the workflow *)

GreeksRaised == \E i \in 1..Len(err) : err[i].step = "greeks"

\* the snapshot holds the surface and the metrics computed before the Greeks
SnapshotBuilt ==
    /\ snapshot # <<>>
    /\ snapshot[1].surface_data = surface[1]
    /\ snapshot[1].metrics = metrics[1]

SnapshotSaved ==
    \E i \in 1..Len(disk) : disk[i].kind = "json" /\ disk[i].content = to_dict(snapshot[1])

\* C1: once calculate_greeks_from_surface has raised, the workflow is never
\* aborted and never exits with an error status; past the snapshot step the
\* snapshot holds the built surface and the metrics, and past the save step
\* it is on disk when saving was requested.
C1_GreeksFailureDoesNotAbort ==
    GreeksRaised =>
        /\ pc \notin {"exited", "stopped"}
        /\ exit_code = 0
        /\ pc \in {"save", "viz", "done"} => SnapshotBuilt
        /\ pc \in {"viz", "done"} /\ args.save_snapshot => SnapshotSaved

\* a run of main.py in which the Greeks raised, the snapshot was built and
\* saved, and the process then ended with status 1
C1_Witness ==
    /\ GreeksRaised
    /\ SnapshotBuilt
    /\ args.save_snapshot /\ SnapshotSaved
    /\ pc = "exited"
    /\ exit_code = 1

---------------------------------------------------------------------------
(* More claims about the metrics *)

MetricNames ==
    { "atm_iv_7d", "atm_iv_30d", "atm_iv_60d", "atm_iv_90d", "atm_iv_180d",
      "skew_25d", "term_structure_slope",
      "iv_mean", "iv_median", "iv_std", "iv_min", "iv_max" }

\* C11: on a table without rows calculate_surface_metrics returns, with every
\* one of its twelve metrics NaN; and on every table it returns the twelve
\* metrics without raising.
C11_EmptyTableGivesAllNaN ==
    /\ err = <<>>
    /\ pc = "metrics_done" =>
          /\ metrics # <<>>
          /\ DOMAIN metrics[1] = MetricNames
          /\ df = <<>> => \A name \in MetricNames : IsNaN(metrics[1][name])

C11_Witness ==
    /\ pc = "metrics_done"
    /\ df = <<>>
    /\ \A name \in MetricNames : IsNaN(metrics[1][name])

---------------------------------------------------------------------------
(* The snapshot history: one storage directory, written by runs of the build
   workflow (main.py:138-140, app.py:162-164) and read by an analysis
   session (app.py:298-334, analyze_history.py) through a SurfaceHistory.
   The objects of the session are kept in history.objects, in the order of
   their creation; history.snapshots is self.snapshots, a list of references
   (indexes) to them; history.returned is what the last call returned. *)

\* the rank of a currency in the alphabetical order of the file names
CurrencyRank(c) == IF c = "BTC" THEN 1 ELSE 2

\* the directory d after writing files: a file of the same name is replaced
RECURSIVE WriteFiles(_, _)
WriteFiles(d, files) ==
    IF files = <<>> THEN d
    ELSE LET f == Head(files)
             Same(g) == g.name = f.name /\ g.kind = f.kind
         IN  WriteFiles(IF \E i \in 1..Len(d) : Same(d[i])
                        THEN [i \in 1..Len(d) |-> IF Same(d[i]) THEN f ELSE d[i]]
                        ELSE Append(d, f),
                        Tail(files))

\* file names "<currency>_<YYYYmmdd_HHMMSS>" in the order of sorted()
NameLe(f, g) ==
    \/ CurrencyRank(f.name[1]) < CurrencyRank(g.name[1])
    \/ f.name[1] = g.name[1] /\ f.name[2] <= g.name[2]

RECURSIVE SortByName(_)
SortByName(files) ==
    IF files = <<>> THEN <<>>
    ELSE LET rest == SortByName(Tail(files))
             f == Head(files)
             before == SelectSeq(rest, LAMBDA g : ~NameLe(f, g))
             after == SelectSeq(rest, LAMBDA g : NameLe(f, g))
         IN  before \o <<f>> \o after

\* sorted(snapshots, key=lambda x: x.timestamp): a stable sort
RECURSIVE SortByTimestamp(_)
SortByTimestamp(snaps) ==
    IF snaps = <<>> THEN <<>>
    ELSE LET rest == SortByTimestamp(Tail(snaps))
             x == Head(snaps)
             before == SelectSeq(rest, LAMBDA y :
                           Microseconds(y.timestamp) < Microseconds(x.timestamp))
             after == SelectSeq(rest, LAMBDA y :
                           Microseconds(y.timestamp) >= Microseconds(x.timestamp))
         IN  before \o <<x>> \o after

\* SurfaceHistory.load_all_snapshots: the snapshots it creates, in the order
\* it keeps them
load_all_snapshots(d, currency) ==
    LET files == SelectSeq(SortByName(SelectSeq(d, LAMBDA f : f.kind = "json")),
                           LAMBDA f : currency = None \/ f.name[1] = currency[1])
    IN  SortByTimestamp([k \in 1..Len(files) |-> from_dict(files[k].content)])

\* SurfaceHistory.get_snapshot_by_date: the first snapshot of the list among
\* those closest to target_date
get_snapshot_by_date(objects, snapshots, target_date) ==
    IF snapshots = <<>> THEN None
    ELSE LET Distance(k) == Abs(Microseconds(objects[snapshots[k]].timestamp)
                                - Microseconds(target_date))
         IN  << snapshots[CHOOSE k \in 1..Len(snapshots) :
                    /\ \A j \in 1..Len(snapshots) : Distance(k) <= Distance(j)
                    /\ \A j \in 1..(k - 1) : Distance(j) > Distance(k)] >>

\* SurfaceHistory.load_raw_data: the raw_options it assigns to the snapshot
load_raw_data(d, snap) ==
    IF \E i \in 1..Len(d) : d[i].kind = "pkl" /\ d[i].name = Stem(snap)
    THEN << d[CHOOSE i \in 1..Len(d) :
                  d[i].kind = "pkl" /\ d[i].name = Stem(snap)].content >>
    ELSE None

\* SurfaceHistory.get_metrics_timeseries: one row per snapshot, with the
\* timestamp as index
get_metrics_timeseries(objects, snapshots) ==
    [k \in 1..Len(snapshots) |->
        LET snap == objects[snapshots[k]]
        IN  snap.metrics @@ [ timestamp |-> snap.timestamp,
                              underlying_price |-> snap.underlying_price,
                              dvol |-> snap.dvol ]]

MaxObjects == 2

\* the quote table of the stored snapshots
HistoryTable == SubTable(GridListing, {1, 2, 3})

\* a snapshot as main.py:127-135 builds it
BuiltSnapshot(timestamp, currency, s, t) ==
    [ timestamp |-> timestamp,
      currency |-> currency,
      underlying_price |-> UnderlyingPrice,
      dvol |-> None,
      surface_data |-> [lm |-> s.lm, tte |-> s.tte, iv |-> s.iv],
      raw_options |-> <<t>>,
      metrics |-> calculate_surface_metrics(t, UnderlyingPrice) ]

\* two runs of the build workflow have each built a snapshot: the first of
\* any surface, the second in the same second or the next one, of the same
\* currency or the other
InitHistory ==
    /\ pc = "history"
    /\ df = <<>>
    /\ metrics = <<>>
    /\ args = <<>>
    /\ surface = <<>>
    /\ svi_params = <<>>
    /\ err = <<>>
    /\ \E s1 \in GreeksSurfaces, s2 \in { create_rbf_surface(t, GridSize) : t \in {GridListing} },
          later \in { [sec |-> 1, usec |-> 5], [sec |-> 2, usec |-> 0] },
          currency \in {"BTC", "ETH"}, t \in {HistoryTable} :
          snapshot = << BuiltSnapshot(Now, Currency, s1, t),
                        BuiltSnapshot(later, currency, s2, t) >>
    /\ disk = <<>>
    /\ exit_code = 0
    /\ history = NoHistory

\* history.save_snapshot(snapshot, save_raw=save_raw) at the end of a build
HistorySaveSnapshot ==
    /\ \E i \in 1..Len(snapshot), save_raw \in BOOLEAN :
          disk' = WriteFiles(disk, SavedFiles(snapshot[i], save_raw))
    /\ UNCHANGED <<pc, df, metrics, args, surface, svi_params, err, snapshot,
                   exit_code, history>>

\* history.load_all_snapshots(currency=...)
LoadAllSnapshots ==
    /\ \E currency \in {None, <<"BTC">>, <<"ETH">>} :
          \E loaded \in {load_all_snapshots(disk, currency)} :
             /\ Len(history.objects) + Len(loaded) <= MaxObjects
             /\ \E refs \in {[k \in 1..Len(loaded) |-> Len(history.objects) + k]} :
                   history' = [ objects |-> history.objects \o loaded,
                                snapshots |-> refs,
                                returned |-> <<refs>> ]
    /\ UNCHANGED <<pc, df, metrics, args, surface, svi_params, err, snapshot,
                   disk, exit_code>>

\* history.get_snapshot_by_date(target_date)
GetSnapshotByDate ==
    /\ \E target_date \in { [sec |-> 1, usec |-> 2], [sec |-> 2, usec |-> 0] } :
          history' = [history EXCEPT !.returned =
              <<get_snapshot_by_date(history.objects, history.snapshots, target_date)>>]
    /\ UNCHANGED <<pc, df, metrics, args, surface, svi_params, err, snapshot,
                   disk, exit_code>>

\* history.load_raw_data(snapshot) on a snapshot of the loaded list
LoadRawData ==
    /\ \E k \in 1..Len(history.snapshots) :
          \E raw \in {load_raw_data(disk, history.objects[history.snapshots[k]])} :
             history' = [history EXCEPT
                            !.objects[history.snapshots[k]].raw_options = raw,
                            !.returned = <<raw>>]
    /\ UNCHANGED <<pc, df, metrics, args, surface, svi_params, err, snapshot,
                   disk, exit_code>>

\* history.get_metrics_timeseries()
GetMetricsTimeseries ==
    /\ history' = [history EXCEPT !.returned =
           <<get_metrics_timeseries(history.objects, history.snapshots)>>]
    /\ UNCHANGED <<pc, df, metrics, args, surface, svi_params, err, snapshot,
                   disk, exit_code>>

NextHistory ==
    \/ HistorySaveSnapshot \/ LoadAllSnapshots \/ GetSnapshotByDate
    \/ LoadRawData \/ GetMetricsTimeseries

SpecHistory == InitHistory /\ [][NextHistory]_vars

---------------------------------------------------------------------------
(* Claims about the stored snapshots *)

\* the built snapshot s was written to the file o was loaded from
ReloadOf(o, s) == o.timestamp = s.timestamp /\ o.currency = s.currency

SameMesh(a, b) == Shape(a) = Shape(b) /\ a.cell = b.cell

SameMeshes(o, s) ==
    /\ SameMesh(o.surface_data.lm, s.surface_data.lm)
    /\ SameMesh(o.surface_data.tte, s.surface_data.tte)
    /\ SameMesh(o.surface_data.iv, s.surface_data.iv)

\* C12: every snapshot loaded from the file of a built snapshot, that is
\* from_dict(to_dict(s)), has the three meshes of s: the same shape and the
\* same value in every cell.
C12_RoundTripReconstructsMeshes ==
    \A i \in 1..Len(history.objects), j \in 1..Len(snapshot) :
        ReloadOf(history.objects[i], snapshot[j]) =>
            SameMeshes(history.objects[i], snapshot[j])

\* a snapshot of an SVI surface without fitted rows, 0 x GridSize, was saved
\* and loaded: its meshes came back with one axis of length 0
C12_Witness ==
    \E i \in 1..Len(history.objects), j \in 1..Len(snapshot) :
        /\ ReloadOf(history.objects[i], snapshot[j])
        /\ Shape(snapshot[j].surface_data.iv) = <<0, GridSize>>
        /\ Shape(history.objects[i].surface_data.iv) = <<0>>

---------------------------------------------------------------------------
(* Claims about the meshes the builders return to the workflow *)

\* the values of a grid run from lo to hi without ever decreasing
RunsFromTo(grid, lo, hi) ==
    /\ grid[1] = lo
    /\ grid[Len(grid)] = hi
    /\ \A i \in 1..(Len(grid) - 1) : FLe(grid[i], grid[i + 1])

\* the column of an array
Column(a, j) == [i \in 1..a.rows |-> a.cell[i][j]]

\* C13: the three meshes a builder returned have one shape; the meshes of
\* create_simple_surface and create_rbf_surface are grid_size x grid_size,
\* every row of their log-moneyness mesh runs from the minimum to the maximum
\* log_moneyness of the builder's table and every column of their tte mesh
\* from its minimum to its maximum tte_years.
C13_MeshesShareShapeAndSpanInput ==
    surface # <<>> =>
        \E s \in {surface[1]}, calls \in {Calls(df)} :
            /\ Shape(s.lm) = Shape(s.tte)
            /\ Shape(s.tte) = Shape(s.iv)
            /\ \A i \in 1..s.iv.rows : /\ Len(s.iv.cell[i]) = s.iv.cols
                                       /\ Len(s.lm.cell[i]) = s.iv.cols
                                       /\ Len(s.tte.cell[i]) = s.iv.cols
            /\ args.method # "svi" =>
                  /\ Shape(s.iv) = <<args.grid_size, args.grid_size>>
                  /\ \A i \in 1..s.lm.rows :
                        RunsFromTo(s.lm.cell[i], ColMin(calls, "log_moneyness"),
                                   ColMax(calls, "log_moneyness"))
                  /\ \A j \in 1..s.tte.cols :
                        RunsFromTo(Column(s.tte, j), ColMin(calls, "tte_years"),
                                   ColMax(calls, "tte_years"))

\* a grid_size x grid_size surface of calls that differ in both coordinates
C13_Witness ==
    /\ surface # <<>>
    /\ args.method # "svi"
    /\ Shape(surface[1].iv) = <<args.grid_size, args.grid_size>>
    /\ FLt(ColMin(Calls(df), "log_moneyness"), ColMax(Calls(df), "log_moneyness"))
    /\ FLt(ColMin(Calls(df), "tte_years"), ColMax(Calls(df), "tte_years"))
    /\ surface[1].lm.cell[1][args.grid_size] = ColMax(Calls(df), "log_moneyness")
    /\ surface[1].tte.cell[args.grid_size][1] = ColMax(Calls(df), "tte_years")

---------------------------------------------------------------------------
(* clean_iv_data on the quote tables of get_option_iv_data *)

MaxCleanRows == 3

\* quotes <<strike, days to expiry, IV as a fraction (NaN: no mark)>>: at the
\* money; on the lower bounds of moneyness and time; on the upper bound of
\* moneyness with a low IV; a high IV; below the moneyness range; expiring in
\* half a day; without mark; with a mark of zero; without bid and ask; with
\* an IV above 1000%
CleanQuotes ==
    << <<100, Num(36), Rat(1, 2)>>, <<70, Num(1), Rat(9, 10)>>,
       <<130, Num(36), Rat(8, 100)>>, <<110, Num(36), Num(3)>>,
       <<60, Num(36), Rat(1, 2)>>, <<100, Rat(1, 2), Rat(1, 2)>>,
       <<105, Num(36), NaN>>, <<95, Num(36), Num(0)>>,
       <<90, Num(72), Rat(6, 10)>>, <<115, Num(36), Num(12)>> >>

NoBidAsk == {9}

\* the listing with its IVs quoted in the given units
CleanListing(units) ==
    [k \in 1..Len(CleanQuotes) |->
        LET iv == IF units = "percent" THEN FMul(CleanQuotes[k][3], Num(100))
                  ELSE CleanQuotes[k][3]
            r == QuoteRow(CleanQuotes[k][1], FDiv(CleanQuotes[k][2], DaysPerYear),
                          "call", iv, UnderlyingPrice)
        IN  [instrument |-> k] @@
            (IF k \in NoBidAsk THEN [r EXCEPT !.bid_iv = NaN, !.ask_iv = NaN] ELSE r)]

\* args.df is the table passed to clean_iv_data, args.units the units the
\* exchange quoted it in
InitClean ==
    /\ pc = "clean"
    /\ \E units \in {"percent", "decimal"} :
          \E listing \in {CleanListing(units)} :
             \E I \in SUBSET (1..Len(CleanQuotes)) :
                /\ Cardinality(I) <= MaxCleanRows
                /\ df = SubTable(listing, I)
                /\ args = [units |-> units, df |-> df]
    /\ metrics = <<>>
    /\ surface = <<>>
    /\ svi_params = <<>>
    /\ err = <<>>
    /\ snapshot = <<>>
    /\ disk = <<>>
    /\ exit_code = 0
    /\ history = NoHistory

\* df = clean_iv_data(df)
CleanIvData ==
    /\ pc = "clean"
    /\ df' = clean_iv_data(df)
    /\ pc' = "cleaned"
    /\ UNCHANGED <<metrics, args, surface, svi_params, err, snapshot, disk,
                   exit_code, history>>

\* clean_iv_data(df) on the table the first call returned
CleanAgain ==
    /\ pc = "cleaned"
    /\ df' = clean_iv_data(df)
    /\ pc' = "recleaned"
    /\ UNCHANGED <<metrics, args, surface, svi_params, err, snapshot, disk,
                   exit_code, history>>

NextClean == CleanIvData \/ CleanAgain

SpecClean == InitClean /\ [][NextClean]_vars

\* the row of the table passed in that has the instrument of r
InputRow(r) ==
    args.df[CHOOSE i \in 1..Len(args.df) : args.df[i].instrument = r.instrument]

\* a row inside the validity thresholds the claims name
InsideThresholds(r) ==
    /\ ~IsNaN(r.mark_iv)
    /\ FLt(Num(0), r.mark_iv)
    /\ FLe(Num(1), r.tte_days)
    /\ FLe(Rat(7, 10), r.moneyness)
    /\ FLe(r.moneyness, Rat(13, 10))

\* C14: every row clean_iv_data returns has a mark_iv that is present and
\* positive, tte_days >= 1 and 0.7 <= moneyness <= 1.3, and every row of the
\* input with these properties is in the result.
C14_CleanKeepsExactlyTheValidRows ==
    pc = "cleaned" =>
        /\ \A k \in 1..Len(df) : InsideThresholds(df[k])
        /\ \A i \in 1..Len(args.df) :
              InsideThresholds(args.df[i]) =>
                  \E k \in 1..Len(df) : df[k].instrument = args.df[i].instrument

\* a table with rows on the bounds and rows outside them was cleaned
C14_Witness ==
    /\ pc = "cleaned"
    /\ \E k \in 1..Len(df) : df[k].moneyness = Rat(7, 10) /\ df[k].tte_days = Num(1)
    /\ Len(df) < Len(args.df)

\* C15: after clean_iv_data every mark_iv is the IV as a fraction, whatever
\* units the table was quoted in (divided by 100 if in percent, unchanged if
\* in decimals), and lies in (0, 5].
C15_MarkIvIsDecimalAfterCleaning ==
    pc = "cleaned" =>
        \A k \in 1..Len(df) :
            /\ df[k].mark_iv = IF args.units = "percent"
                               THEN FDiv(InputRow(df[k]).mark_iv, Num(100))
                               ELSE InputRow(df[k]).mark_iv
            /\ FLt(Num(0), df[k].mark_iv)
            /\ FLe(df[k].mark_iv, Num(5))

\* a table quoted in percent came out of clean_iv_data still in percent
C15_Witness ==
    /\ pc = "cleaned"
    /\ args.units = "percent"
    /\ df # <<>>
    /\ \A k \in 1..Len(df) : df[k].mark_iv = InputRow(df[k]).mark_iv
    /\ \E k \in 1..Len(df) : FLt(Num(5), df[k].mark_iv)

\* C16 as claimed: every row of the result is a row of the input, with every
\* field as it was in the input.
C16_SurvivingRowsAreInputRows ==
    pc = "cleaned" => \A k \in 1..Len(df) : \E i \in 1..Len(args.df) : df[k] = args.df[i]

\* C16: the rows of the result are rows of the input, in the order of the
\* input, with every field as it was in the input, except that mark_iv,
\* bid_iv and ask_iv of all of them are divided by 100 when the largest
\* mark_iv among them is above 10.
C16_SurvivingRowsAreInputRowsUpToUnits ==
    pc = "cleaned" =>
        /\ \A k \in 1..Len(df) : \A j \in 1..Len(df) :
              k < j => \E a \in 1..Len(args.df), b \in 1..Len(args.df) :
                          /\ a < b
                          /\ args.df[a].instrument = df[k].instrument
                          /\ args.df[b].instrument = df[j].instrument
        /\ IF \E k \in 1..Len(df) : FLt(Num(10), InputRow(df[k]).mark_iv)
           THEN \A k \in 1..Len(df) :
                   df[k] = [InputRow(df[k]) EXCEPT
                               !.mark_iv = FDiv(@, Num(100)),
                               !.bid_iv = FDiv(@, Num(100)),
                               !.ask_iv = FDiv(@, Num(100))]
           ELSE \A k \in 1..Len(df) : df[k] = InputRow(df[k])

\* a table in percent was cleaned: rows were dropped and the IVs of the
\* others were rescaled
C16_Witness ==
    /\ pc = "cleaned"
    /\ 0 < Len(df) /\ Len(df) < Len(args.df)
    /\ \E k \in 1..Len(df) :
          /\ df[k].mark_iv # InputRow(df[k]).mark_iv
          /\ df[k].bid_iv = FDiv(InputRow(df[k]).bid_iv, Num(100))
          /\ df[k].strike = InputRow(df[k]).strike

---------------------------------------------------------------------------
(* Claims about the quote table in the workflow *)

\* C17: the metrics engine and the three builders leave the quote table as
\* it is: the steps of the workflow that run them change no row, no column
\* and no value of df, so the Greeks engine reads the table that was cleaned.
C17_BuildersAndMetricsLeaveTableUnchanged ==
    [][(pc \in {"metrics", "build"}) => (df' = df)]_vars

\* the metrics and a surface were computed from a table of calls and puts
C17_Witness ==
    /\ pc = "greeks"
    /\ metrics # <<>>
    /\ surface # <<>>
    /\ \E k \in 1..Len(df) : df[k].option_type = "put"
    /\ \E k \in 1..Len(df) : df[k].option_type = "call"

---------------------------------------------------------------------------
(* Claims about the snapshot objects *)

\* C18: no operation of the history changes a field of a snapshot that
\* exists: the built snapshots and every snapshot object loaded so far are
\* after each step what they were before it.
C18_SnapshotsNeverChange ==
    [][/\ snapshot' = snapshot
       /\ \A i \in 1..Len(history.objects) :
             history'.objects[i] = history.objects[i]]_vars

\* a snapshot that was loaded, hence without raw options, holds a quote table
C18_Witness ==
    \E i \in 1..Len(history.objects) : history.objects[i].raw_options # None

---------------------------------------------------------------------------
(* Claims about the table the Greeks engine annotates *)

\* C19: a call of calculate_greeks_from_surface that raises leaves the table
\* of the workflow as it was before the call.
C19_FailedGreeksLeaveTableUnchanged ==
    [][(pc = "greeks" /\ err' # err) => (df' = df)]_vars

\* the Greeks raised and the workflow went on to build its snapshot with a
\* table that has the column log_moneyness_calc and no other column of the
\* Greeks engine
C19_Witness ==
    /\ GreeksRaised
    /\ snapshot # <<>>
    /\ df # <<>>
    /\ snapshot[1].raw_options = <<df>>
    /\ \A k \in 1..Len(df) : /\ "log_moneyness_calc" \in DOMAIN df[k]
                             /\ "smoothed_iv" \notin DOMAIN df[k]
                             /\ "bs_delta" \notin DOMAIN df[k]

GreeksColumns ==
    { "log_moneyness_calc", "smoothed_iv",
      "bs_delta", "bs_gamma", "bs_vega", "bs_theta", "bs_rho" }

\* C20: a call of calculate_greeks_from_surface that returns leaves the
\* number and the order of the rows and every column the table had as they
\* were, and adds the seven columns of the Greeks engine and no other.
C20_GreeksOnlyAddColumns ==
    [][(pc = "greeks" /\ pc' = "greeks_done") =>
          /\ Len(df') = Len(df)
          /\ \A k \in 1..Len(df) :
                /\ DOMAIN df'[k] = DOMAIN df[k] \cup GreeksColumns
                /\ \A c \in DOMAIN df[k] : df'[k][c] = df[k][c]]_vars

\* a table of calls and puts was annotated: Greeks for the rows above one
\* hour, NaN for the others, and a smoothed IV that differs from the mark
C20_Witness ==
    /\ pc = "greeks_done"
    /\ Len(df) >= 2
    /\ \E k \in 1..Len(df) : ~IsNaN(df[k].bs_delta) /\ df[k].smoothed_iv # df[k].mark_iv
    /\ \E k \in 1..Len(df) : IsNaN(df[k].bs_delta)

---------------------------------------------------------------------------
(* More claims about the SVI builder *)

\* the expirations of table t that have at least 5 quotes
FittedExpirations(t) == { tte \in Expirations(t) : QuotesAt(t, tte) >= 5 }

\* the values of a row are equally spaced from lo to hi
LinearlySpaced(row, lo, hi) ==
    /\ row[1] = lo
    /\ row[Len(row)] = hi
    /\ \A j \in 1..(Len(row) - 1) :
          FSub(row[j + 1], row[j]) = FSub(row[2], row[1])

\* C21: in the meshes create_svi_surface returns, row i of the tte mesh holds
\* in every column the i-th smallest expiration with at least 5 quotes, so
\* the rows increase strictly in tte_years; every row of the log-moneyness
\* mesh has grid_size columns, equally spaced from the smallest to the
\* largest log_moneyness of the whole table, skipped expirations included.
C21_SviRowsAreSortedExpirationsOverWholeRange ==
    (pc = "built" /\ args.builder = "svi") =>
        \E s \in {surface[1]}, fitted \in {FittedExpirations(df)} :
            /\ s.tte.rows = Cardinality(fitted)
            /\ \A i \in 1..s.tte.rows :
                  /\ Len(s.tte.cell[i]) = args.grid_size
                  /\ Len(s.lm.cell[i]) = args.grid_size
                  /\ s.tte.cell[i][1] \in fitted
                  /\ \A j \in 1..args.grid_size : s.tte.cell[i][j] = s.tte.cell[i][1]
                  /\ Cardinality({ tte \in fitted : FLt(tte, s.tte.cell[i][1]) }) = i - 1
                  /\ i > 1 => FLt(s.tte.cell[i - 1][1], s.tte.cell[i][1])
                  /\ LinearlySpaced(s.lm.cell[i], ColMin(df, "log_moneyness"),
                                    ColMax(df, "log_moneyness"))

\* two fitted expirations, and the smallest log_moneyness of the table is
\* that of a quote of an expiration that was skipped
C21_Witness ==
    /\ pc = "built" /\ args.builder = "svi"
    /\ surface[1].tte.rows = 2
    /\ FLt(surface[1].tte.cell[1][1], surface[1].tte.cell[2][1])
    /\ \E k \in 1..Len(df) :
          /\ df[k].tte_years \notin FittedExpirations(df)
          /\ df[k].log_moneyness = surface[1].lm.cell[1][1]
          /\ \A i \in 1..Len(df) :
                df[i].tte_years \in FittedExpirations(df) =>
                    FLt(df[k].log_moneyness, df[i].log_moneyness)

---------------------------------------------------------------------------
(* Claims about the smoothed IV *)

\* the point of grid g nearest to x
NearestInDomain(g, x) ==
    IF FLt(x, g[1]) THEN g[1] ELSE IF FLt(g[Len(g)], x) THEN g[Len(g)] ELSE x

\* the value of the surface of the state at the point of its domain nearest
\* to row r
EdgeValue(r) ==
    CHOOSE v \in
        { Interpolate(lm, tte, IvGrid(surface[1], lm, tte),
                      [ x |-> NearestInDomain(lm, r.log_moneyness_calc),
                        y |-> NearestInDomain(tte, r.tte_years) ], args.side) :
          lm \in {Unique(surface[1].lm)}, tte \in {Unique(surface[1].tte)} } : TRUE

OutsideDomain(r) ==
    \E lm \in {Unique(surface[1].lm)}, tte \in {Unique(surface[1].tte)} :
        \/ FLt(r.log_moneyness_calc, lm[1]) \/ FLt(lm[Len(lm)], r.log_moneyness_calc)
        \/ FLt(r.tte_years, tte[1]) \/ FLt(tte[Len(tte)], r.tte_years)

\* C22: every option is interpolated at the point of the surface's domain
\* nearest to it: its smoothed IV is the value the surface has there when
\* that value is defined, so an option outside the domain gets the value of
\* the nearest edge and nothing is extrapolated.
C22_InterpolationPointIsClampedToDomain ==
    pc = "greeks_done" =>
        \A k \in 1..Len(df) :
            \E v \in {EdgeValue(df[k])} : ~IsNaN(v) => df[k].smoothed_iv = v

\* an option below the time range and beyond the log-moneyness range of the
\* surface got the value of the surface's corner
C22_Witness ==
    /\ pc = "greeks_done"
    /\ \E k \in 1..Len(df) :
          \E lm \in {Unique(surface[1].lm)}, tte \in {Unique(surface[1].tte)} :
             /\ FLt(df[k].tte_years, tte[1])
             /\ FLt(lm[Len(lm)], df[k].log_moneyness_calc)
             /\ ~IsNaN(df[k].smoothed_iv)
             /\ df[k].smoothed_iv = IvGrid(surface[1], lm, tte)[Len(lm)][1]
             /\ df[k].smoothed_iv # df[k].mark_iv

\* C23: the smoothed IV of every option is the value interpolated off the
\* surface when that value is defined and the option's own mark_iv when it
\* is NaN, so it is defined whenever the mark_iv is.
C23_SmoothedIvFallsBackOnMarkIv ==
    pc = "greeks_done" =>
        \A k \in 1..Len(df) :
            \E v \in {EdgeValue(df[k])} :
                /\ df[k].smoothed_iv = IF IsNaN(v) THEN df[k].mark_iv ELSE v
                /\ ~IsNaN(df[k].mark_iv) => ~IsNaN(df[k].smoothed_iv)

\* on a grid-built surface with NaN cells an option lies over a hole and has
\* its mark_iv as smoothed IV, and its Greeks are computed from it
C23_Witness ==
    /\ pc = "greeks_done"
    /\ \E c \in (1..surface[1].iv.rows) \X (1..surface[1].iv.cols) :
          IsNaN(surface[1].iv.cell[c[1]][c[2]])
    /\ \E k \in 1..Len(df) :
          /\ IsNaN(EdgeValue(df[k]))
          /\ df[k].smoothed_iv = df[k].mark_iv
          /\ ~IsNaN(df[k].smoothed_iv)
          /\ ~IsNaN(df[k].bs_delta)

---------------------------------------------------------------------------
(* Claims about the optimizer runs of the SVI builder *)

\* what one optimizer run on the slice of tte can return
FitResults(t, tte) ==
    { fit_svi_slice(Col(slice_df, "log_moneyness"), Col(slice_df, "mark_iv"), tte, o) :
        slice_df \in {Slice(t, tte)}, o \in FitOutcomes }

\* the rows of the meshes of s that hold expiration tte
RowsOf(s, tte) == { i \in 1..s.tte.rows : s.tte.cell[i][1] = tte }

\* C24: create_svi_surface always returns; every expiration with at least 5
\* quotes has as parameters the result of one optimizer run on its slice,
\* converged or not, and exactly one mesh row, computed from these
\* parameters.
C24_EverySliceKeepsItsFitResult ==
    (pc # "build" /\ args.builder = "svi") =>
        /\ pc = "built"
        /\ err = <<>>
        /\ \A tte \in FittedExpirations(df) :
              /\ tte \in DOMAIN svi_params[1]
              /\ svi_params[1][tte] \in FitResults(df, tte)
              /\ Cardinality(RowsOf(surface[1], tte)) = 1
              /\ \A i \in RowsOf(surface[1], tte) : \A j \in 1..args.grid_size :
                    surface[1].iv.cell[i][j] =
                        FSqrt(FDiv(svi_parametrization(surface[1].lm.cell[i][j],
                                                       svi_params[1][tte]), tte))

\* two expirations were fitted: the optimizer improved on its initial guess
\* for one and returned the initial guess for the other, and both have their
\* row
C24_Witness ==
    /\ pc = "built" /\ args.builder = "svi"
    /\ surface[1].iv.rows = 2
    /\ \E a, b \in DOMAIN svi_params[1] :
          /\ svi_params[1][a].b = Rat(1, 10)
          /\ svi_params[1][b].b = Num(0)

----------------------------------------------------------------------------
(* C25: the order of the steps of one build *)

MeshOf(r) == <<[lm |-> r.lm, tte |-> r.tte, iv |-> r.iv]>>

\* the surfaces the chosen builder can return for a table
SurfacesOf(t, method, grid_size) ==
    IF method = "simple" THEN {MeshOf(create_simple_surface(t, "cubic", grid_size))}
    ELSE IF method = "rbf" THEN {MeshOf(create_rbf_surface(t, grid_size))}
    ELSE IF method = "svi"
         THEN { MeshOf(create_svi_surface(t, grid_size, outcome)) :
                    outcome \in [Expirations(t) -> FitOutcomes] }
         ELSE {}

\* C25: a run goes clean -> metrics -> build -> Greeks.  The metrics are
\* those of the cleaned table, which carries no Greeks column yet and
\* reaches the builder and the Greeks step unchanged; the surface is the
\* builder's surface of the call rows of that table; the Greeks step starts
\* with a surface and annotates every row of the table, calls and puts.
C25_CleanThenBuildThenGreeks ==
    [][ /\ (pc = "clean" /\ pc' # pc) =>
               \/ pc' \in {"exited", "stopped"}
               \/ pc' = "metrics" /\ df' = clean_iv_data(df) /\ surface' = <<>>
        /\ (pc = "metrics" /\ pc' # pc) =>
               /\ pc' = "build" /\ df' = df /\ surface' = <<>>
               /\ \A k \in 1..Len(df) : "log_moneyness_calc" \notin DOMAIN df[k]
               /\ metrics' = <<calculate_surface_metrics(df, args.underlying_price)>>
        /\ (pc = "build" /\ pc' # pc) =>
               /\ df' = df /\ metrics' = metrics
               /\ \/ pc' \in {"exited", "stopped"} /\ surface' = <<>>
                  \/ /\ pc' = "greeks"
                     /\ surface' \in SurfacesOf(SelectSeq(df, LAMBDA r : r.option_type = "call"),
                                                args.method, args.grid_size)
        /\ (pc = "greeks" /\ pc' # pc) =>
               /\ surface # <<>> /\ surface' = surface /\ metrics' = metrics
               /\ pc' = "snapshot"
               /\ Len(df') = Len(df)
               /\ \A k \in 1..Len(df) :
                     /\ "log_moneyness_calc" \in DOMAIN df'[k]
                     /\ \A f \in DOMAIN df[k] : df'[k][f] = df[k][f]
        /\ (pc' = "greeks" => pc = "build")
        /\ (pc' = "build" => pc = "metrics")
        /\ (pc' = "metrics" => pc = "clean")
      ]_vars

\* a run that reached the snapshot step with calls and puts annotated from
\* a surface, the table holding puts that the builder did not see
C25_Witness ==
    /\ pc = "snapshot"
    /\ surface # <<>>
    /\ metrics # <<>>
    /\ \E k \in 1..Len(df) : df[k].option_type = "put" /\ "smoothed_iv" \in DOMAIN df[k]
    /\ \E k \in 1..Len(df) : df[k].option_type = "call" /\ "smoothed_iv" \in DOMAIN df[k]
    /\ surface \notin SurfacesOf(df, args.method, args.grid_size)

----------------------------------------------------------------------------
(* deribit_api.py: get_option_iv_data, one ticker request per instrument *)

\* 365.25 * 24 * 3600
SecondsPerYear == 31557600

\* the longest time, in seconds of the local clock, between two readings of
\* datetime.now() in consecutive iterations (the ticker request in between)
MaxFetchDelay == 2

\* the instruments of get_instruments: <<strike, expiration_timestamp in
\* ms, option type, mark IV of the ticker in percent>>, two expirations
FetchInstruments ==
    << <<90, 86400000, "call", 60>>, <<100, 86400000, "call", 50>>,
       <<100, 86400000, "put", 52>>, <<100, 172800000, "call", 54>>,
       <<110, 172800000, "call", 58>> >>

\* deribit_api.py:67-98, the row appended for an instrument whose ticker
\* arrived when the local clock read `now`
TickerRow(inst, now, underlying_price) ==
    LET expiration_ts == Rat(inst[2], 1000)
        tte == FDiv(FSub(expiration_ts, Num(now)), Num(SecondsPerYear))
    IN  [ strike               |-> inst[1],
          expiration_timestamp |-> expiration_ts,
          tte_days             |-> FMul(tte, DaysPerYear),
          tte_years            |-> tte,
          option_type          |-> inst[3],
          mark_iv              |-> Num(inst[4]),
          bid_iv               |-> Num(inst[4]),
          ask_iv               |-> Num(inst[4]),
          moneyness            |-> Rat(inst[1], underlying_price),
          log_moneyness        |-> Ln(inst[1], underlying_price) ]

\* args holds the arguments of the call and the locals of its loop: the
\* index i of the next instrument and the reading of the local clock
InitFetch ==
    /\ pc = "fetching"
    /\ args = [ instruments |-> FetchInstruments, underlying_price |-> UnderlyingPrice,
                i |-> 1, now |-> 0 ]
    /\ df = <<>>
    /\ metrics = <<>>
    /\ surface = <<>>
    /\ svi_params = <<>>
    /\ err = <<>>
    /\ snapshot = <<>>
    /\ disk = <<>>
    /\ exit_code = 0
    /\ history = NoHistory

\* deribit_api.py:55-98, one iteration: the ticker request, which takes
\* time, then datetime.now() and the row; the clock may read the same value
\* as in the iteration before
FetchTicker ==
    /\ pc = "fetching"
    /\ args.i <= Len(args.instruments)
    /\ \E delay \in 0..MaxFetchDelay :
          /\ args' = [args EXCEPT !.i = @ + 1, !.now = @ + delay]
          /\ df' = Append(df, TickerRow(args.instruments[args.i], args.now + delay,
                                        args.underlying_price))
    /\ UNCHANGED <<pc, metrics, surface, svi_params, err, snapshot, disk, exit_code, history>>

\* deribit_api.py:100-102, one iteration whose request or ticker raised:
\* the instrument is skipped
FetchTickerFailed ==
    /\ pc = "fetching"
    /\ args.i <= Len(args.instruments)
    /\ \E delay \in 0..MaxFetchDelay :
          args' = [args EXCEPT !.i = @ + 1, !.now = @ + delay]
    /\ UNCHANGED <<pc, df, metrics, surface, svi_params, err, snapshot, disk, exit_code, history>>

\* deribit_api.py:104-105
ReturnTable ==
    /\ pc = "fetching"
    /\ args.i > Len(args.instruments)
    /\ pc' = "fetched"
    /\ UNCHANGED <<df, metrics, args, surface, svi_params, err, snapshot, disk, exit_code, history>>

NextFetch == FetchTicker \/ FetchTickerFailed \/ ReturnTable

SpecFetch == InitFetch /\ [][NextFetch]_vars

\* C26: in the table returned by get_option_iv_data, two rows of the same
\* expiration_timestamp carry the same tte_years and tte_days, so the
\* slice create_svi_surface takes for a row's tte_years holds every row of
\* that row's expiration.
C26_SameExpirationSameTte ==
    pc = "fetched" =>
        \A j, k \in 1..Len(df) :
            df[j].expiration_timestamp = df[k].expiration_timestamp =>
                /\ df[j].tte_years = df[k].tte_years
                /\ df[j].tte_days = df[k].tte_days
                /\ \E n \in 1..Len(Slice(df, df[j].tte_years)) :
                      Slice(df, df[j].tte_years)[n] = df[k]

\* a returned table in which every row of the first expiration has its own
\* tte_years, so create_svi_surface sees three expirations of one quote
C26_Witness ==
    /\ pc = "fetched"
    /\ Len(df) = Len(FetchInstruments)
    /\ \A j, k \in 1..3 : j # k => df[j].tte_years # df[k].tte_years
    /\ \A j \in 1..3 : Len(Slice(df, df[j].tte_years)) = 1
    /\ Cardinality({df[j].expiration_timestamp : j \in 1..Len(df)}) = 2
    /\ Cardinality(Expirations(df)) > 2

----------------------------------------------------------------------------
(* C27: the files of earlier snapshots *)

JsonFiles(d) == SelectSeq(d, LAMBDA f : f.kind = "json")

\* C27: save_snapshot leaves every file of the directory as it was, and a
\* save that writes a snapshot the directory did not hold yet makes
\* load_all_snapshots return one snapshot more.
C27_SaveNeverOverwrites ==
    [][ (disk' # disk) =>
            /\ \A i \in 1..Len(disk) : \E j \in 1..Len(disk') : disk'[j] = disk[i]
            /\ (\E j \in 1..Len(disk') :
                    /\ disk'[j].kind = "json"
                    /\ \A i \in 1..Len(disk) :
                          disk[i].kind = "json" => disk[i].content # disk'[j].content)
               => Len(load_all_snapshots(disk', None))
                      = Len(load_all_snapshots(disk, None)) + 1
      ]_vars

\* two distinct snapshots of one currency built within the same second, and
\* a directory whose only JSON file, under their common name, is the second
C27_Witness ==
    /\ snapshot[1] # snapshot[2]
    /\ to_dict(snapshot[1]) # to_dict(snapshot[2])
    /\ Stem(snapshot[1]) = Stem(snapshot[2])
    /\ Len(JsonFiles(disk)) = 1
    /\ JsonFiles(disk)[1].content = to_dict(snapshot[2])
    /\ Len(load_all_snapshots(disk, None)) = 1

----------------------------------------------------------------------------
(* C28: the snapshot and the failures before it *)

Failed(steps) == \E i \in 1..Len(err) : err[i].step \in steps

\* C28: a snapshot exists, in memory or on disk, only in a run whose fetch,
\* cleaning, metrics and surface build all succeeded; a run of main.py
\* whose fetch or builder raised, or whose method name is none of the
\* three, has ended with exit status 1 and has written no file.
C28_SnapshotOnlyAfterSuccessfulBuild ==
    /\ (snapshot # <<>> \/ disk # <<>>) =>
           /\ ~Failed({"fetch", "clean", "build"})
           /\ args.method \in Methods
           /\ metrics # <<>> /\ surface # <<>>
           /\ snapshot # <<>>
           /\ snapshot[1].surface_data = surface[1]
           /\ snapshot[1].metrics = metrics[1]
    /\ (args.frontend = "cli" /\ Failed({"fetch", "clean", "build"})) =>
           pc = "exited" /\ exit_code # 0 /\ disk = <<>> /\ snapshot = <<>>
    /\ (args.frontend = "cli" /\ args.method \notin Methods
            /\ pc \notin {"fetch", "clean", "metrics", "build"}) =>
           /\ pc = "exited" /\ exit_code # 0 /\ disk = <<>> /\ snapshot = <<>>
           /\ Failed({"fetch", "clean", "build"})

\* a run of main.py with --save whose builder raised on cleaned call
\* quotes, after the metrics: it has exited with status 1 without a file
C28_Witness ==
    /\ args.frontend = "cli" /\ args.save_snapshot
    /\ pc = "exited" /\ exit_code = 1 /\ disk = <<>> /\ snapshot = <<>>
    /\ Failed({"build"}) /\ args.method \in Methods
    /\ metrics # <<>> /\ Calls(df) # <<>>

----------------------------------------------------------------------------
(* C29: clean_iv_data on its own output *)

\* C29: clean_iv_data applied to a table it returned gives that table back:
\* no row is dropped and no IV is rescaled again.
C29_CleanIsIdempotent ==
    [][(pc = "cleaned") => (df' = df)]_vars

\* a quote of 1200% in a table in percent, after two cleanings: both
\* divided its IV by 100
C29_Witness ==
    /\ pc = "recleaned"
    /\ args.units = "percent"
    /\ \E k \in 1..Len(df) :
          /\ InputRow(df[k]).mark_iv = Num(1200)
          /\ df[k].mark_iv = Rat(12, 100)
    /\ \A k \in 1..Len(df) :
          df[k].mark_iv = FDiv(FDiv(InputRow(df[k]).mark_iv, Num(100)), Num(100))

----------------------------------------------------------------------------
(* C30: the crossings of the resampled grid *)

Cells(a) == (1..a.rows) \X (1..a.cols)

\* the mesh cells at the crossing of a log-moneyness and a tte value
Matching(s, log_m, tte) ==
    { c \in Cells(s.lm) : s.lm.cell[c[1]][c[2]] = log_m /\ s.tte.cell[c[1]][c[2]] = tte }

\* C30: for the surface of a builder, every crossing of a unique
\* log-moneyness with a unique tte is a cell of the mesh, and iv_grid holds
\* at the crossing the IV of such a cell: no crossing keeps the initial 0.0,
\* and the smoothed IV of every option is interpolated from mesh IVs only.
C30_EveryCrossingHasAMeshCell ==
    pc \in {"greeks_done", "greeks_failed"} =>
        \E s \in {surface[1]} :
        \E log_m_unique \in {Unique(s.lm)}, tte_unique \in {Unique(s.tte)} :
        \E iv_grid \in {IvGrid(s, log_m_unique, tte_unique)} :
            /\ \A i \in 1..Len(log_m_unique), j \in 1..Len(tte_unique) :
                  /\ Matching(s, log_m_unique[i], tte_unique[j]) # {}
                  /\ \E c \in Matching(s, log_m_unique[i], tte_unique[j]) :
                        iv_grid[i][j] = s.iv.cell[c[1]][c[2]]
            /\ Len(log_m_unique) * Len(tte_unique) <= s.lm.rows * s.lm.cols
            /\ pc = "greeks_done" =>
                  \A k \in 1..Len(df) :
                      df[k].smoothed_iv = Num(0) =>
                          \E c \in Cells(s.iv) : s.iv.cell[c[1]][c[2]] = Num(0)

\* Greeks computed from a mesh of several log-moneyness values and several
\* expirations, an option taking its smoothed IV off the resampled grid
C30_Witness ==
    /\ pc = "greeks_done"
    /\ Len(Unique(surface[1].lm)) > 1
    /\ Len(Unique(surface[1].tte)) > 1
    /\ \E k \in 1..Len(df) :
          ~IsNaN(df[k].smoothed_iv) /\ df[k].smoothed_iv # df[k].mark_iv

=============================================================================
